---- MODULE Spec2Model ----
(***************************************************************************)
(* PlanMate planning pipeline: StopResolver (AgentCoordinator.            *)
(* executeSearches with VenueSpecialistAgent / EventSpecialistAgent),     *)
(* RouteAssembler (RouteOptimizerAgent), QualityGate                       *)
(* (QualityControllerAgent) and the MCP tool handlers that return the      *)
(* itinerary.                                                              *)
(*                                                                         *)
(* Units.  A location is [lat, lng] in steps of 50 m north and east of     *)
(* the session origin; the locations of stops and search points lie on     *)
(* the meridian through the origin, where the haversine distance is the    *)
(* difference of the latitudes.  Distances kept by the program in km are   *)
(* kept here in 50 m steps (20 per km); totalDistance, which the program   *)
(* rounds to 0.1 km, is kept in tenths of a km.  Times are minutes.        *)
(***************************************************************************)
EXTENDS Integers, Sequences, FiniteSets, TLC

VARIABLES
    pc,            \* position of the request in the pipeline
    context,       \* AgentContext of the session
    plan,          \* ItineraryPlan (strategy, local flag, search points)
    allStops,      \* executeSearches' allStops / the payload of the route agent
    optimizedRoute,\* RouteOptimizationResult
    qualityResult, \* result of QualityControllerAgent.process
    response,      \* what the tool handler returns to the caller
    task,          \* per search point: position and locals of its resolution task
    usedVenueIds,  \* VenueSpecialistAgent.usedVenueIds
    existingEventIds, \* executeSearches' existingEventIds (sequential variant)
    flags,         \* executeSearches' eventSearchAttempted / noEventsFound
    provider       \* the specialist agent's call in progress: its locals and its
                   \* log of provider requests

vars == <<pc, context, plan, allStops, optimizedRoute, qualityResult, response,
          task, usedVenueIds, existingEventIds, flags, provider>>

(***************************************************************************)
(* Bounds                                                                  *)
(***************************************************************************)
MaxStops == 4
\* search points of a plan
MaxPoints == 2

(***************************************************************************)
(* Program constants (distances in 50 m steps, times in minutes)           *)
(***************************************************************************)
\* 3 km: hard cap of a local search around the origin
MAX_LOCAL_DISTANCE_KM == 60
\* 1.5 km: longest walk between consecutive stops of a local search
MAX_WALK_BETWEEN_STOPS_KM == 30
\* 2 km: findNearestLocal skips candidates further from the centre
FindNearestLocalCap == 40
\* 2.5 km: optimizeByDistanceLocal skips candidates further from the centre
OptimizeLocalCap == 50
\* stop.walkTime || 30
DefaultWalkTime == 30

(***************************************************************************)
(* Helpers                                                                 *)
(***************************************************************************)
Abs(x) == IF x < 0 THEN -x ELSE x

Max2(a, b) == IF a >= b THEN a ELSE b

Min2(a, b) == IF a <= b THEN a ELSE b

Range(s) == {s[i] : i \in 1..Len(s)}

SelectIdx(s, keep) == SelectSeq([i \in 1..Len(s) |-> i], LAMBDA i : s[i] \in keep)

RECURSIVE SumSeq(_)
SumSeq(s) == IF s = <<>> THEN 0 ELSE Head(s) + SumSeq(Tail(s))

Loc(north) == [lat |-> north, lng |-> 0]

\* floor of the square root
Isqrt(n) == CHOOSE r \in 0..n : r * r <= n /\ (r + 1) * (r + 1) > n

\* haversine distance in 50 m steps: exact along a meridian or a parallel,
\* planar otherwise
calculateDistance(loc1, loc2) ==
    LET dLat == loc2.lat - loc1.lat
        dLon == loc2.lng - loc1.lng
    IN  IF dLon = 0 THEN Abs(dLat)
        ELSE IF dLat = 0 THEN Abs(dLon)
        ELSE Isqrt(dLat * dLat + dLon * dLon)

\* Math.round(x / d) for x >= 0 (halves round up)
RoundDiv(x, d) == (2 * x + d) \div (2 * d)

\* indices of keys in ascending key order, ties in index order
\* (Array.prototype.sort is stable)
RECURSIVE SortIdxRec(_, _)
SortIdxRec(keys, remaining) ==
    IF remaining = {} THEN <<>>
    ELSE LET m == CHOOSE i \in remaining :
                    \A j \in remaining :
                        keys[i] < keys[j] \/ (keys[i] = keys[j] /\ i <= j)
         IN  <<m>> \o SortIdxRec(keys, remaining \ {m})

StableSortAsc(s, keys) ==
    LET idx == SortIdxRec(keys, 1..Len(s))
    IN  [k \in 1..Len(s) |-> s[idx[k]]]

StableSortDesc(s, keys) == StableSortAsc(s, [i \in 1..Len(s) |-> -keys[i]])

\* (a.order || 0) - (b.order || 0)
SortByOrder(stops) == StableSortAsc(stops, [i \in 1..Len(stops) |-> stops[i].order])

\* index of the first element with the strictly smallest key
FirstMinIdx(keys) ==
    CHOOSE i \in 1..Len(keys) :
        \A j \in 1..Len(keys) : keys[i] < keys[j] \/ (keys[i] = keys[j] /\ i <= j)

RemoveAt(s, i) == SubSeq(s, 1, i - 1) \o SubSeq(s, i + 1, Len(s))

FilterOutId(s, id) == SelectSeq(s, LAMBDA v : v.id # id)

(***************************************************************************)
(* Resolved stops                                                          *)
(***************************************************************************)
Stop(id, order, location, category, isEvent, startDate, endTime, isExplicitRequest, isPlaceholder, userSpecified, timingConflict) ==
    [id |-> id, order |-> order, location |-> Loc(location), category |-> category,
     isEvent |-> isEvent, startDate |-> startDate, endTime |-> endTime,
     isExplicitRequest |-> isExplicitRequest, isPlaceholder |-> isPlaceholder,
     userSpecified |-> userSpecified, timingConflict |-> timingConflict,
     walkTime |-> 0, distanceFromPrevious |-> 0, distanceFromCenter |-> -1]

\* mutant of Exempt: the explicit-request flag is not looked at
ExemptWithoutExplicit(s) == s.isPlaceholder \/ s.userSpecified

\* s.isExplicitRequest || s.isPlaceholder || s.userSpecified
Exempt(s) == s.isExplicitRequest \/ s.isPlaceholder \/ s.userSpecified

Ids(stops) == {stops[i].id : i \in 1..Len(stops)}

(***************************************************************************)
(* RouteAssembler: RouteOptimizerAgent                                     *)
(***************************************************************************)
findNearest(from, candidates) ==
    candidates[FirstMinIdx([i \in 1..Len(candidates) |->
                               calculateDistance(from, candidates[i].location)])]

RECURSIVE optimizeByDistanceRec(_, _)
optimizeByDistanceRec(optimized, remaining) ==
    IF remaining = <<>> THEN optimized
    ELSE LET last == optimized[Len(optimized)]
             nearestIdx == FirstMinIdx([i \in 1..Len(remaining) |->
                              calculateDistance(last.location, remaining[i].location)])
         IN  optimizeByDistanceRec(Append(optimized, remaining[nearestIdx]),
                                   RemoveAt(remaining, nearestIdx))

optimizeByDistance(stops) ==
    IF stops = <<>> THEN <<>>
    ELSE optimizeByDistanceRec(<<Head(stops)>>, Tail(stops))

\* the candidates within 2 km of the centre, scored by
\* distFromCurrent + 0.5 * distFromCenter (doubled here); <<>> stands for null
findNearestLocal(from, candidates, center) ==
    LET near == SelectSeq(candidates, LAMBDA c :
                    calculateDistance(center, c.location) <= FindNearestLocalCap)
    IN  IF near = <<>> THEN <<>>
        ELSE <<near[FirstMinIdx([i \in 1..Len(near) |->
                   2 * calculateDistance(from, near[i].location)
                     + calculateDistance(center, near[i].location)])]>>

\* the nearest remaining venue for the interleaving loops: findNearestLocal
\* for a local search, findNearest otherwise
NearestFor(isLocalSearch, from, candidates, center) ==
    IF isLocalSearch THEN findNearestLocal(from, candidates, center)
    ELSE <<findNearest(from, candidates)>>

\* up to n times: append the nearest remaining venue to the result
RECURSIVE TakeNearest(_, _, _, _)
TakeNearest(n, st, isLocalSearch, center) ==
    IF n = 0 \/ st.remaining = <<>> THEN st
    ELSE LET nearest == NearestFor(isLocalSearch, st.last, st.remaining, center)
         IN  IF nearest = <<>> THEN st
             ELSE TakeNearest(n - 1,
                      [result |-> Append(st.result, nearest[1]),
                       last |-> nearest[1].location,
                       remaining |-> FilterOutId(st.remaining, nearest[1].id)],
                      isLocalSearch, center)

\* the loop over the events of optimizeWithTimeConstraints / optimizeLocalRoute
RECURSIVE InterleaveRec(_, _, _, _, _)
InterleaveRec(k, events, st, isLocalSearch, center) ==
    IF k > Len(events) THEN st
    ELSE LET venuesBefore == (Len(st.remaining) + (Len(events) - k + 2) - 1)
                                 \div (Len(events) - k + 2)
             before == TakeNearest(venuesBefore, st, isLocalSearch, center)
         IN  InterleaveRec(k + 1, events,
                 [result |-> Append(before.result, events[k]),
                  last |-> events[k].location,
                  remaining |-> before.remaining],
                 isLocalSearch, center)

Interleave(venues, events, isLocalSearch, center) ==
    LET afterEvents == InterleaveRec(1, events,
                           [result |-> <<>>, last |-> center, remaining |-> venues],
                           isLocalSearch, center)
    IN  TakeNearest(Len(afterEvents.remaining), afterEvents, isLocalSearch, center).result

optimizeWithTimeConstraints(venues, events, center) ==
    IF events = <<>> THEN optimizeByDistance(venues)
    ELSE Interleave(venues, events, FALSE, center)

RECURSIVE optimizeByDistanceLocalRec(_, _, _)
optimizeByDistanceLocalRec(optimized, remaining, center) ==
    IF remaining = <<>> THEN optimized
    ELSE LET last == optimized[Len(optimized)]
             okIdx == SelectIdx(remaining, {r \in Range(remaining) :
                          calculateDistance(center, r.location) <= OptimizeLocalCap})
         IN  IF okIdx = <<>> THEN optimized
             ELSE LET nearestIdx == okIdx[FirstMinIdx([i \in 1..Len(okIdx) |->
                           calculateDistance(last.location, remaining[okIdx[i]].location)])]
                  IN  optimizeByDistanceLocalRec(Append(optimized, remaining[nearestIdx]),
                                                 RemoveAt(remaining, nearestIdx), center)

optimizeByDistanceLocal(stops, center) ==
    IF stops = <<>> THEN <<>>
    ELSE LET nearest == findNearest(center, stops)
         IN  optimizeByDistanceLocalRec(<<nearest>>, FilterOutId(stops, nearest.id), center)

optimizeLocalRoute(venues, events, center) ==
    IF events = <<>> THEN optimizeByDistanceLocal(venues, center)
    ELSE Interleave(venues, events, TRUE, center)

\* Math.round(distance * 15), distance in 50 m steps
WalkTimeOf(distance) == RoundDiv(distance * 3, 4)

\* Math.round(totalDistance * 10) / 10, in tenths of a km
RoundTotal(totalSteps) == RoundDiv(totalSteps, 2)

calculateRoute(stops, isLocalSearch, center) ==
    LET dist(i) == IF i > 1
                   THEN calculateDistance(stops[i - 1].location, stops[i].location)
                   ELSE 0
        stopsWithTiming == [i \in 1..Len(stops) |->
            [stops[i] EXCEPT !.walkTime = WalkTimeOf(dist(i)),
                             !.distanceFromPrevious = dist(i),
                             !.order = i]]
        total == SumSeq([i \in 1..Len(stops) |-> dist(i)])
        maxDistanceFromCenter ==
            IF isLocalSearch /\ stops # <<>>
            THEN CHOOSE d \in {calculateDistance(center, stops[i].location) : i \in 1..Len(stops)} :
                     \A i \in 1..Len(stops) : calculateDistance(center, stops[i].location) <= d
            ELSE 0
    IN  [stops |-> stopsWithTiming,
         totalDistance |-> RoundTotal(total),
         totalWalkTime |-> SumSeq([i \in 1..Len(stops) |-> WalkTimeOf(dist(i))]),
         isLocalSearch |-> isLocalSearch,
         distanceWarning |-> IF isLocalSearch /\ maxDistanceFromCenter > MAX_LOCAL_DISTANCE_KM
                             THEN "text" ELSE "unset"]

\* the optimizing branch of process: events by start time, venues interleaved
OptimizedStops(payload, ctx) ==
    LET stops == payload.allStops
        isEventStop(s) == s.isEvent /\ s.startDate # 0
        events0 == SelectSeq(stops, isEventStop)
        venues == SelectSeq(stops, LAMBDA s : ~isEventStop(s))
        events == StableSortAsc(events0, [i \in 1..Len(events0) |-> events0[i].startDate])
    IN  IF payload.isLocalSearch
        THEN optimizeLocalRoute(venues, events, ctx.location)
        ELSE optimizeWithTimeConstraints(venues, events, ctx.location)

EmptyRoute == [stops |-> <<>>, totalDistance |-> 0, totalWalkTime |-> 0,
               isLocalSearch |-> FALSE, distanceWarning |-> "unset"]

\* mutant of RouteProcess: the preserve-order branch is missing
RouteProcessAlwaysOptimize(payload, ctx) ==
    IF payload.allStops = <<>> THEN EmptyRoute
    ELSE calculateRoute(OptimizedStops(payload, ctx), payload.isLocalSearch, ctx.location)

\* RouteOptimizerAgent.process
RouteProcess(payload, ctx) ==
    IF payload.allStops = <<>> THEN EmptyRoute
    ELSE IF payload.preserveOrder \/ ctx.constraints.sequence_matters
    THEN calculateRoute(SortByOrder(payload.allStops), payload.isLocalSearch, ctx.location)
    ELSE calculateRoute(OptimizedStops(payload, ctx), payload.isLocalSearch, ctx.location)

(***************************************************************************)
(* QualityGate: QualityControllerAgent                                     *)
(***************************************************************************)
validateTiming(itinerary) ==
    LET stops == itinerary.stops
    IN  ~ \E i \in 2..Len(stops) :
            /\ stops[i].startDate # 0
            /\ stops[i - 1].endTime # 0
            /\ stops[i - 1].endTime
                 + (IF stops[i].walkTime # 0 THEN stops[i].walkTime ELSE DefaultWalkTime)
               > stops[i].startDate

validateVariety(itinerary) ==
    LET stops == itinerary.stops
        categories == {stops[i].category : i \in 1..Len(stops)}
    IN  ~ (10 * Cardinality(categories) < 3 * Len(stops) /\ Len(stops) > 3)

\* the duration-class ceiling of the total distance, in km
maxDistances(durationType, isLocalSearch) ==
    IF isLocalSearch
    THEN CASE durationType = "few_hours" -> 2
           [] durationType = "full_day" -> 5
           [] durationType = "multi_day" -> 8
           [] OTHER -> 5
    ELSE CASE durationType = "few_hours" -> 3
           [] durationType = "full_day" -> 10
           [] durationType = "multi_day" -> 15
           [] OTHER -> 10

validateDistance(itinerary) ==
    ~ (itinerary.totalDistance
         > 10 * maxDistances(itinerary.durationType, itinerary.isLocalSearch))

validateLocalConstraints(itinerary, ctx) ==
    LET stops == itinerary.stops
        problematicStops == {i \in 1..Len(stops) :
            calculateDistance(ctx.location, stops[i].location) > MAX_LOCAL_DISTANCE_KM}
        walkTooLong == \E i \in 1..(Len(stops) - 1) :
            calculateDistance(stops[i].location, stops[i + 1].location)
              > MAX_WALK_BETWEEN_STOPS_KM
    IN  stops = <<>> \/ (problematicStops = {} /\ ~walkTooLong)

\* the duration-class ceiling of the stop count
maxStops(durationType, isLocalSearch) ==
    IF isLocalSearch
    THEN CASE durationType = "few_hours" -> 3
           [] durationType = "full_day" -> 5
           [] durationType = "multi_day" -> 4
           [] OTHER -> 5
    ELSE CASE durationType = "few_hours" -> 3
           [] durationType = "full_day" -> 6
           [] durationType = "multi_day" -> 5
           [] OTHER -> 5

validateFeasibility(itinerary) ==
    ~ (Len(itinerary.stops) > maxStops(itinerary.durationType, itinerary.isLocalSearch))

\* !itinerary[field] for title, description, stops, totalDistance
validateCompleteness(itinerary) ==
    /\ itinerary.title
    /\ itinerary.description
    /\ itinerary.totalDistance # 0
    /\ itinerary.stops # <<>>

CheckTypes == <<"timing", "variety", "distance", "localConstraints",
                "feasibility", "completeness">>

validationResults(itinerary, ctx) ==
    [timing |-> validateTiming(itinerary),
     variety |-> validateVariety(itinerary),
     distance |-> validateDistance(itinerary),
     localConstraints |-> IF itinerary.isLocalSearch
                          THEN validateLocalConstraints(itinerary, ctx)
                          ELSE TRUE,
     feasibility |-> validateFeasibility(itinerary),
     completeness |-> validateCompleteness(itinerary)]

IssuesOf(results) == SelectSeq(CheckTypes, LAMBDA t : ~results[t])

calculateQualityScore(results) ==
    Cardinality({t \in Range(CheckTypes) : results[t]})

\* mutant of FixLocalConstraints: no stop is removed
FixLocalConstraintsKeepsAll(fixed, ctx) == fixed

\* case 'localConstraints'
FixLocalConstraints(fixed, ctx) ==
    IF fixed.stops = <<>> THEN fixed
    ELSE LET stopsWithDistance == [i \in 1..Len(fixed.stops) |->
                 [fixed.stops[i] EXCEPT !.distanceFromCenter =
                      calculateDistance(ctx.location, fixed.stops[i].location)]]
             kept == SelectSeq(stopsWithDistance, LAMBDA stop :
                         stop.distanceFromCenter <= MAX_LOCAL_DISTANCE_KM \/ Exempt(stop))
         IN  [fixed EXCEPT
                 !.stops = SortByOrder(kept),
                 !.localSearchAdjusted = @ \/ Len(stopsWithDistance) > Len(kept),
                 !.removedStopsCount =
                     IF Len(stopsWithDistance) > Len(kept)
                     THEN Len(stopsWithDistance) - Len(kept) ELSE @]

\* mutant of FixDistance: nothing is flagged when every stop is exempt
FixDistanceNoWarning(fixed, ctx) ==
    LET idx == SelectIdx(fixed.stops, {s \in Range(fixed.stops) : ~Exempt(s)})
    IN  IF idx = <<>> THEN fixed
        ELSE [fixed EXCEPT !.stops = RemoveAt(@, idx[Len(idx)])]

\* case 'distance'
FixDistance(fixed, ctx) ==
    LET allExplicit == \A i \in 1..Len(fixed.stops) : Exempt(fixed.stops[i])
        nonExplicitStops == SelectSeq(fixed.stops, LAMBDA s : ~Exempt(s))
    IN  IF fixed.stops = <<>> THEN fixed
        ELSE IF allExplicit THEN [fixed EXCEPT !.distanceWarning = "true"]
        ELSE IF fixed.isLocalSearch
        THEN LET byDistance == StableSortDesc(nonExplicitStops,
                     [i \in 1..Len(nonExplicitStops) |->
                         calculateDistance(ctx.location, nonExplicitStops[i].location)])
                 toRemove == byDistance[1]
             IN  [fixed EXCEPT !.stops = FilterOutId(@, toRemove.id)]
        ELSE LET idx == SelectIdx(fixed.stops, {s \in Range(fixed.stops) : ~Exempt(s)})
                 toRemove == idx[Len(idx)]
             IN  [fixed EXCEPT !.stops = RemoveAt(@, toRemove)]

\* case 'timing'
FixTiming(fixed) ==
    [fixed EXCEPT !.stops = SelectSeq(@, LAMBDA s : ~s.timingConflict \/ Exempt(s))]

\* case 'variety'
FixVariety(fixed) == [fixed EXCEPT !.needsVariety = TRUE]

ApplyFix(fixed, type, ctx) ==
    CASE type = "localConstraints" -> FixLocalConstraints(fixed, ctx)
      [] type = "distance" -> FixDistance(fixed, ctx)
      [] type = "timing" -> FixTiming(fixed)
      [] type = "variety" -> FixVariety(fixed)
      [] OTHER -> fixed

RECURSIVE attemptFixes(_, _, _)
attemptFixes(itinerary, issues, ctx) ==
    IF issues = <<>> THEN itinerary
    ELSE attemptFixes(ApplyFix(itinerary, Head(issues), ctx), Tail(issues), ctx)

\* QualityControllerAgent.process
QualityProcess(itinerary, ctx) ==
    LET results == validationResults(itinerary, ctx)
        issues == IssuesOf(results)
    IN  [valid |-> issues = <<>>,
         issues |-> issues,
         itinerary |-> attemptFixes(itinerary, issues, ctx),
         qualityScore |-> calculateQualityScore(results)]

(***************************************************************************)
(* Route assembly, quality validation and the tool handlers, starting      *)
(* from an arbitrary list of resolved stops                                *)
(***************************************************************************)
\* resolved stops the itineraries are built from: venues and an event on
\* both sides of the origin, within and beyond the local cap, with every
\* kind of removal exemption
StopPool ==
    { Stop("v1", 1,   4, "restaurant", FALSE, 0, 585, FALSE, FALSE, FALSE, FALSE),
      Stop("v2", 2,  24, "restaurant", FALSE, 0, 0,   TRUE,  FALSE, FALSE, FALSE),
      Stop("v3", 3, -46, "restaurant", FALSE, 0, 0,   FALSE, FALSE, FALSE, TRUE),
      Stop("v4", 4, -70, "restaurant", FALSE, 0, 0,   FALSE, FALSE, FALSE, FALSE),
      Stop("v5", 5,  90, "park",       FALSE, 0, 0,   TRUE,  FALSE, FALSE, TRUE),
      Stop("e1", 6,  30, "undefined",  TRUE,  600, 0, FALSE, FALSE, TRUE,  FALSE),
      Stop("placeholder_7", 7, 64, "venue", FALSE, 0, 0, FALSE, TRUE, FALSE, FALSE) }

DurationTypes == {"few_hours", "full_day", "multi_day"}

StrategyTypes == {"minimal", "balanced"}

Injective(s) == \A i, j \in 1..Len(s) : i # j => s[i] # s[j]

StopLists == {s \in UNION {[1..n -> StopPool] : n \in 0..MaxStops} : Injective(s)}

NoRoute == EmptyRoute

NoItinerary == [title |-> FALSE, description |-> FALSE, stops |-> <<>>,
                totalDistance |-> 0, totalWalkTime |-> 0, durationType |-> "few_hours",
                isLocalSearch |-> FALSE, distanceWarning |-> "unset",
                needsVariety |-> FALSE, localSearchAdjusted |-> FALSE,
                removedStopsCount |-> 0]

NoQuality == [valid |-> FALSE, issues |-> <<>>, itinerary |-> NoItinerary,
              qualityScore |-> 0]

NoResponse == [success |-> FALSE, itinerary |-> NoItinerary, noEventsFound |-> FALSE]

NoFlags == [eventSearchAttempted |-> FALSE, noEventsFound |-> FALSE]

\* no specialist call is being followed request by request
NoProvider == [agent |-> "none"]

Init ==
    /\ pc = "route"
    /\ \E d \in DurationTypes, sm \in BOOLEAN :
          context = [location |-> Loc(0), durationType |-> d,
                     constraints |-> [sequence_matters |-> sm],
                     selectedVenues |-> <<>>]
    /\ \E t \in StrategyTypes, l \in BOOLEAN, ti \in BOOLEAN :
          plan = [searchStrategy |-> [type |-> t], isLocalSearch |-> l,
                  title |-> ti, description |-> TRUE, searchPoints |-> <<>>]
    /\ allStops \in StopLists
    /\ optimizedRoute = NoRoute
    /\ qualityResult = NoQuality
    /\ response = NoResponse
    /\ task = <<>>
    /\ usedVenueIds = {}
    /\ existingEventIds = {}
    /\ flags = NoFlags
    /\ provider = NoProvider

\* processItinerary, step 4: callAgent('route', ...)
RoutePayload ==
    [allStops |-> allStops,
     preserveOrder |-> plan.searchStrategy.type = "minimal"
                         \/ context.constraints.sequence_matters,
     isLocalSearch |-> plan.isLocalSearch]

CallRoute ==
    /\ pc = "route"
    /\ optimizedRoute' = RouteProcess(RoutePayload, context)
    /\ pc' = "quality"
    /\ UNCHANGED <<provider, context, plan, allStops, qualityResult, response, task,
                   usedVenueIds, existingEventIds, flags>>

\* processItinerary, step 5: the payload of callAgent('quality', ...)
QualityPayload ==
    [title |-> plan.title, description |-> plan.description,
     stops |-> optimizedRoute.stops,
     totalDistance |-> optimizedRoute.totalDistance,
     totalWalkTime |-> optimizedRoute.totalWalkTime,
     durationType |-> context.durationType,
     isLocalSearch |-> plan.isLocalSearch,
     distanceWarning |-> optimizedRoute.distanceWarning,
     needsVariety |-> FALSE, localSearchAdjusted |-> FALSE, removedStopsCount |-> 0]

CallQuality ==
    /\ pc = "quality"
    /\ qualityResult' = QualityProcess(QualityPayload, context)
    /\ pc' = "respond"
    /\ UNCHANGED <<provider, context, plan, allStops, optimizedRoute, response, task,
                   usedVenueIds, existingEventIds, flags>>

\* what processItinerary returns
ProcessItineraryResult ==
    [success |-> TRUE, itinerary |-> qualityResult.itinerary,
     noEventsFound |-> flags.eventSearchAttempted /\ flags.noEventsFound]

\* tool 'generate-itinerary' (and 'multi-day-pipeline'): the result as it is
GenerateItinerary ==
    /\ pc = "respond"
    /\ response' = ProcessItineraryResult
    /\ pc' = "done"
    /\ UNCHANGED <<provider, context, plan, allStops, optimizedRoute, qualityResult, task,
                   usedVenueIds, existingEventIds, flags>>

\* result.itinerary.stops.slice(0, maxStops)
QuickTripTruncate(result, maxStopsArg) ==
    [result EXCEPT !.itinerary.stops = SubSeq(@, 1, Min2(maxStopsArg, Len(@)))]

\* tool 'quick-trip-pipeline'
QuickTrip ==
    /\ pc = "respond"
    /\ \E maxStopsArg \in 1..3 :
          response' = QuickTripTruncate(ProcessItineraryResult, maxStopsArg)
    /\ pc' = "done"
    /\ UNCHANGED <<provider, context, plan, allStops, optimizedRoute, qualityResult, task,
                   usedVenueIds, existingEventIds, flags>>

Next == CallRoute \/ CallQuality \/ GenerateItinerary \/ QuickTrip

Spec == Init /\ [][Next]_vars

(***************************************************************************)
(* StopResolver: VenueSpecialistAgent.process and                          *)
(* AgentCoordinator.executeSearches, one search point at a time            *)
(* (SpecSeq) and all points at once joined by Promise.all (SpecConc).      *)
(* Names and query texts are sequences of characters.                      *)
(***************************************************************************)
\* 1.5 km: a point of a local search further from the origin is moved
LocalPointCap == 30
\* 0.0135 degrees of longitude at the latitude of the default origin (40.758 N)
MaxOffset == 23
\* 2 km: a selected venue of a local search beyond it takes the name and
\* location of a closer result
CloserVenueCap == 40
\* 3 km: an event of a local search beyond it is skipped
LocalEventCap == 60

Lower(c) == CASE c = "A" -> "a" [] c = "C" -> "c" [] c = "J" -> "j" [] OTHER -> c

toLowerCase(name) == [i \in 1..Len(name) |-> Lower(name[i])]

includes(s, sub) ==
    \E i \in 1..(Len(s) - Len(sub) + 1) : SubSeq(s, i, i + Len(sub) - 1) = sub

\* what PlaceProvider can return: "Ab" and "ab" differ in case only, "Cab"
\* contains "ab" and lies 2.5 km from the origin
VenuePool ==
    { [id |-> "pa", name |-> <<"A", "b">>,      location |-> Loc(8),  category |-> "restaurant"],
      [id |-> "pb", name |-> <<"a", "b">>,      location |-> Loc(12), category |-> "cafe"],
      [id |-> "pc", name |-> <<"C", "a", "b">>, location |-> Loc(50), category |-> "park"] }

\* what EventProvider can return: one event 1 km and one 3.5 km from the origin
EventPool ==
    { [id |-> "tx", name |-> <<"x">>, location |-> Loc(20), startDate |-> 600],
      [id |-> "ty", name |-> <<"y">>, location |-> Loc(70), startDate |-> 660] }

Perms(S) == {s \in [1..Cardinality(S) -> S] : Injective(s)}

\* the ranked lists EventSpecialistAgent.process can resolve to
EventResultLists == UNION {Perms(S) : S \in SUBSET EventPool}

\* search points of a plan; GPT numbers them, so two may share a stopNumber
PointPool ==
    { [stopNumber |-> 2, type |-> "venue", query |-> <<"q", "1">>, category |-> "restaurant",
       location |-> Loc(10), purpose |-> "p1", isExplicitRequest |-> FALSE],
      [stopNumber |-> 1, type |-> "venue", query |-> <<"q", "2">>, category |-> "undefined",
       location |-> Loc(36), purpose |-> "p2", isExplicitRequest |-> TRUE],
      [stopNumber |-> 3, type |-> "event", query |-> <<"q", "3">>, category |-> "undefined",
       location |-> Loc(-34), purpose |-> "p3", isExplicitRequest |-> FALSE],
      [stopNumber |-> 2, type |-> "event", query |-> <<"q", "4">>, category |-> "undefined",
       location |-> Loc(20), purpose |-> "p4", isExplicitRequest |-> FALSE] }

PointLists == {s \in UNION {[1..n -> PointPool] : n \in 1..MaxPoints} : Injective(s)}

ResolvedStop(id, name, purpose, order, location, category, isEvent, startDate, isExplicitRequest, isPlaceholder, userSpecified) ==
    [id |-> id, name |-> name, purpose |-> purpose, order |-> order,
     location |-> location, category |-> category, isEvent |-> isEvent,
     startDate |-> startDate, endTime |-> 0,
     isExplicitRequest |-> isExplicitRequest, isPlaceholder |-> isPlaceholder,
     userSpecified |-> userSpecified, timingConflict |-> FALSE,
     nearbyEvents |-> <<>>,
     walkTime |-> 0, distanceFromPrevious |-> 0, distanceFromCenter |-> -1]

placeholderId(stopNumber) == "placeholder_" \o ToString(stopNumber)

\* mutant of VenueStop: the venue is not marked as user-specified
VenueStopUnmarked(selected, point) ==
    ResolvedStop(selected.id, selected.name, point.purpose, point.stopNumber,
                 selected.location, selected.category, FALSE, 0,
                 point.isExplicitRequest, FALSE, FALSE)

\* selected.purpose = ..., selected.order = point.stopNumber, ...
VenueStop(selected, point) ==
    ResolvedStop(selected.id, selected.name, point.purpose, point.stopNumber,
                 selected.location, selected.category, FALSE, 0,
                 point.isExplicitRequest, FALSE, TRUE)

\* mutant of PlaceholderStop: the placeholder stands at the origin
PlaceholderStopAtOrigin(point) ==
    ResolvedStop(placeholderId(point.stopNumber), point.query, point.purpose,
                 point.stopNumber, Loc(0),
                 IF point.category = "undefined" THEN "venue" ELSE point.category,
                 FALSE, 0, point.isExplicitRequest, TRUE, FALSE)

\* id: `placeholder_${point.stopNumber}`, name: point.query, ...
PlaceholderStop(point) ==
    ResolvedStop(placeholderId(point.stopNumber), point.query, point.purpose,
                 point.stopNumber, point.location,
                 IF point.category = "undefined" THEN "venue" ELSE point.category,
                 FALSE, 0, point.isExplicitRequest, TRUE, FALSE)

EventStop(selected, point) ==
    ResolvedStop(selected.id, selected.name, point.purpose, point.stopNumber,
                 selected.location, "undefined", TRUE, selected.startDate,
                 point.isExplicitRequest, FALSE, TRUE)

\* selected.name.toLowerCase() === v.name.toLowerCase() ||
\* selected.name.includes(v.name) || v.name.includes(selected.name)
similarName(previouslySelectedVenues, v) ==
    \E i \in 1..Len(previouslySelectedVenues) :
        LET selected == previouslySelectedVenues[i]
        IN  \/ toLowerCase(selected.name) = toLowerCase(v.name)
            \/ includes(selected.name, v.name)
            \/ includes(v.name, selected.name)

\* mutant of FilterUsed: venues selected before are not filtered out
FilterUsedKeepsAll(venues, previouslySelectedVenues, used) == venues

\* VenueSpecialistAgent.process: "FILTER OUT ALREADY USED VENUES"
FilterUsed(venues, previouslySelectedVenues, used) ==
    {v \in venues : /\ v.id \notin Ids(previouslySelectedVenues)
                    /\ v.id \notin used
                    /\ ~similarName(previouslySelectedVenues, v)}

\* mutant of FilterExpanded: whatever the wider search returns is kept
FilterExpandedKeepsAll(venues, previousIds, used) == venues

\* the filter after the search with the doubled radius: ids only
FilterExpanded(venues, previousIds, used) ==
    {v \in venues : v.id \notin previousIds /\ v.id \notin used}

\* per search point: where its resolution stands and the locals it holds
NoTask == [pc |-> "pending", found |-> {}, previousIds |-> {}, venues |-> {},
           selected |-> <<>>, events |-> <<>>, searchFailed |-> FALSE, nearby |-> "unset",
           pushedAt |-> 0]

\* what the nearby-events lookup of a selected venue can come to
NearbyOutcomes == {"attached", "none", "failed"}

\* selected.nearbyEvents = nearbyEvents, when the lookup returned some
attachNearby(stop, nearby) ==
    IF nearby = "attached" THEN [stop EXCEPT !.nearbyEvents = <<"tx">>] ELSE stop

InitSearchWith(localSearch) ==
    /\ pc = "search"
    /\ context = [location |-> Loc(0), durationType |-> "full_day",
                  constraints |-> [sequence_matters |-> FALSE],
                  selectedVenues |-> <<>>]
    /\ \E l \in localSearch, points \in PointLists :
          /\ plan = [searchStrategy |-> [type |-> "balanced"], isLocalSearch |-> l,
                     title |-> TRUE, description |-> TRUE, searchPoints |-> points]
          /\ task = [i \in 1..Len(points) |-> NoTask]
    /\ allStops = <<>>
    /\ optimizedRoute = NoRoute
    /\ qualityResult = NoQuality
    /\ response = NoResponse
    /\ usedVenueIds = {}
    /\ existingEventIds = {}
    /\ flags = NoFlags
    /\ provider = NoProvider

\* a request to the coordinator with the local-search constraints
InitSearch == InitSearchWith(BOOLEAN)

\* a request to the coordinator that resolves all points at once; it never
\* reads plan.isLocalSearch
InitConc == InitSearchWith({FALSE})

(***************************************************************************)
(* executeSearches, sequential variant: for (const point of searchPoints)  *)
(***************************************************************************)
\* the point the loop has come to
NextPoint(i) ==
    /\ i \in 1..Len(task)
    /\ task[i].pc = "pending"
    /\ \A j \in 1..(i - 1) : task[j].pc = "done"

\* the local adjustment of a point beyond 1.5 km; with the arguments of atan2
\* and of sin/cos as the code has them, a point north (south) of the origin
\* moves to 0.0135 degrees east (west) of it
adjustLocation(point, isLocalSearch, center) ==
    IF isLocalSearch /\ calculateDistance(center, point.location) > LocalPointCap
    THEN [point EXCEPT !.location =
             [lat |-> center.lat,
              lng |-> center.lng + (IF point.location.lat >= center.lat
                                    THEN MaxOffset ELSE -MaxOffset)]]
    ELSE point

\* venueResults.find(v => calculateDistance(context.location, v.location) < 2)
closerVenue(venueResults, center) ==
    SelectSeq(venueResults,
              LAMBDA v : calculateDistance(center, v.location) < CloserVenueCap)

\* the selected venue of a local search takes the name and the location of
\* the first result within 2 km when it lies beyond 2 km itself
selectVenue(venueResults, isLocalSearch, center) ==
    LET selected == venueResults[1]
        closer == closerVenue(venueResults, center)
    IN  IF /\ isLocalSearch
           /\ calculateDistance(center, selected.location) > CloserVenueCap
           /\ closer # <<>>
        THEN [selected EXCEPT !.location = closer[1].location, !.name = closer[1].name]
        ELSE selected

\* "Find first non-duplicate event": its index in eventResults, 0 if none
selectEvent(eventResults, existing, isLocalSearch, center) ==
    LET ok == SelectSeq([i \in 1..Len(eventResults) |-> i],
                  LAMBDA i :
                      /\ eventResults[i].id \notin existing
                      /\ ~(isLocalSearch /\
                           calculateDistance(center, eventResults[i].location) > LocalEventCap))
    IN  IF ok = <<>> THEN 0 ELSE ok[1]

\* the candidates VenueSpecialistAgent.process ends with, given what the
\* first search (found) and the search with the doubled radius (expanded) return
venueCandidates(found, expanded, ctx, used) ==
    LET filtered == FilterUsed(found, ctx.selectedVenues, used)
    IN  IF found = {} THEN {}
        ELSE IF filtered = {}
             THEN FilterExpanded(expanded, Ids(ctx.selectedVenues), used)
             ELSE filtered

\* a venue point whose search raises an error
SeqVenueFails ==
  \E i \in 1..Len(task) :
    /\ pc = "search" /\ NextPoint(i)
    /\ plan.searchPoints[i].type = "venue"
    /\ LET point == adjustLocation(plan.searchPoints[i], plan.isLocalSearch, context.location)
       IN  /\ plan' = [plan EXCEPT !.searchPoints[i] = point]
           /\ allStops' = Append(allStops, PlaceholderStop(point))
           /\ task' = [task EXCEPT ![i].pc = "done", ![i].searchFailed = TRUE]
    /\ UNCHANGED <<provider, pc, context, optimizedRoute, qualityResult, response,
                   usedVenueIds, existingEventIds, flags>>

\* a venue point: the venue agent, the closer venue, the nearby events, the push
SeqVenuePoint ==
  \E i \in 1..Len(task) :
    /\ pc = "search" /\ NextPoint(i)
    /\ plan.searchPoints[i].type = "venue"
    /\ LET point == adjustLocation(plan.searchPoints[i], plan.isLocalSearch, context.location)
       IN  \E found \in SUBSET VenuePool, expanded \in SUBSET VenuePool :
             LET candidates == venueCandidates(found, expanded, context, usedVenueIds)
             IN  /\ plan' = [plan EXCEPT !.searchPoints[i] = point]
                 /\ IF candidates = {}
                    THEN /\ allStops' = Append(allStops, PlaceholderStop(point))
                         /\ task' = [task EXCEPT ![i].pc = "done", ![i].found = found]
                         /\ UNCHANGED <<usedVenueIds, context>>
                    ELSE \E venueResults \in Perms(candidates), nearby \in NearbyOutcomes :
                           LET selected == selectVenue(venueResults, plan.isLocalSearch,
                                                       context.location)
                           IN  /\ usedVenueIds' = usedVenueIds \cup {venueResults[1].id}
                               /\ context' = [context EXCEPT !.selectedVenues =
                                                 Append(@, selected)]
                               /\ allStops' = Append(allStops,
                                      attachNearby(VenueStop(selected, point), nearby))
                               /\ task' = [task EXCEPT ![i].pc = "done",
                                                       ![i].found = found,
                                                       ![i].venues = candidates,
                                                       ![i].nearby = nearby]
    /\ UNCHANGED <<provider, pc, optimizedRoute, qualityResult, response, existingEventIds, flags>>

\* an event point whose search raises an error
SeqEventFails ==
  \E i \in 1..Len(task) :
    /\ pc = "search" /\ NextPoint(i)
    /\ plan.searchPoints[i].type = "event"
    /\ plan' = [plan EXCEPT !.searchPoints[i] =
                   adjustLocation(@, plan.isLocalSearch, context.location)]
    /\ flags' = [eventSearchAttempted |-> TRUE, noEventsFound |-> TRUE]
    /\ task' = [task EXCEPT ![i].pc = "done", ![i].searchFailed = TRUE]
    /\ UNCHANGED <<provider, pc, context, allStops, optimizedRoute, qualityResult, response,
                   usedVenueIds, existingEventIds>>

\* an event point: the event agent, the first event that is neither a
\* duplicate nor too far, the push
SeqEventPoint ==
  \E i \in 1..Len(task) :
    /\ pc = "search" /\ NextPoint(i)
    /\ plan.searchPoints[i].type = "event"
    /\ LET point == adjustLocation(plan.searchPoints[i], plan.isLocalSearch, context.location)
       IN  \E eventResults \in EventResultLists :
             LET k == selectEvent(eventResults, existingEventIds, plan.isLocalSearch,
                                  context.location)
             IN  /\ plan' = [plan EXCEPT !.searchPoints[i] = point]
                 /\ flags' = [eventSearchAttempted |-> TRUE,
                              noEventsFound |-> flags.noEventsFound \/ eventResults = <<>>]
                 /\ allStops' = IF k = 0 THEN allStops
                                ELSE Append(allStops, EventStop(eventResults[k], point))
                 /\ existingEventIds' = IF k = 0 THEN existingEventIds
                                        ELSE existingEventIds \cup {eventResults[k].id}
                 /\ task' = [task EXCEPT ![i].pc = "done", ![i].events = eventResults]
    /\ UNCHANGED <<provider, pc, context, optimizedRoute, qualityResult, response, usedVenueIds>>

\* allStops.forEach((stop, index) => { stop.order = index + 1; })
renumber(stops) == [i \in 1..Len(stops) |-> [stops[i] EXCEPT !.order = i]]

\* mutant of sortAndRenumber: the stops are numbered as they were pushed
renumberOnly(stops) == renumber(stops)

\* "Re-sort and renumber"
sortAndRenumber(stops) == renumber(SortByOrder(stops))

\* the end of the loop: sort, renumber, return to processItinerary
SeqFinish ==
    /\ pc = "search"
    /\ \A i \in 1..Len(task) : task[i].pc = "done"
    /\ allStops' = sortAndRenumber(allStops)
    /\ pc' = "route"
    /\ UNCHANGED <<provider, context, plan, optimizedRoute, qualityResult, response, task,
                   usedVenueIds, existingEventIds, flags>>

NextSeq ==
    \/ SeqVenueFails \/ SeqVenuePoint \/ SeqEventFails \/ SeqEventPoint
    \/ SeqFinish

SpecSeq == InitSearch /\ [][NextSeq]_vars

(***************************************************************************)
(* Properties of route assembly and quality repair (Spec)                  *)
(***************************************************************************)
IdSeq(stops) == [i \in 1..Len(stops) |-> stops[i].id]

Routed == pc \in {"quality", "respond", "done"}

Validated == pc \in {"respond", "done"}

IssueRaised(type) == type \in Range(qualityResult.issues)

OrdersExact(stops) == {stops[i].order : i \in 1..Len(stops)} = 1..Len(stops)

BeyondCap(s) == calculateDistance(context.location, s.location) > MAX_LOCAL_DISTANCE_KM

DistancesConsistent(itinerary) ==
    LET stops == itinerary.stops
    IN  /\ \A i \in 1..Len(stops) :
              stops[i].distanceFromPrevious =
                  IF i = 1 THEN 0
                  ELSE calculateDistance(stops[i - 1].location, stops[i].location)
        /\ itinerary.totalDistance =
              RoundTotal(SumSeq([i \in 1..Len(stops) |-> stops[i].distanceFromPrevious]))

\* C2: in every itinerary handed back, totalDistance is the (rounded) sum of
\* the stops' distanceFromPrevious, each being the distance to the stop that
\* now precedes it
C2_TotalDistanceIsSum ==
    /\ Routed => DistancesConsistent(optimizedRoute)
    /\ Validated => DistancesConsistent(qualityResult.itinerary)
    /\ pc = "done" => DistancesConsistent(response.itinerary)

NothingRemoved == IdSeq(qualityResult.itinerary.stops) = IdSeq(optimizedRoute.stops)

OriginalOrder(id) == (CHOOSE i \in 1..Len(allStops) : allStops[i].id = id)

InputOrderOf(id) == allStops[OriginalOrder(id)].order

\* C8: when preserveOrder holds, the assembled route is the input stops in
\* ascending order of their intended stop number, none dropped
C8_PreserveOrder ==
    (Routed /\ RoutePayload.preserveOrder) =>
        LET out == optimizedRoute.stops
        IN  /\ Len(out) = Len(allStops)
            /\ Ids(out) = Ids(allStops)
            /\ \A i, j \in 1..Len(out) :
                  i < j => InputOrderOf(out[i].id) < InputOrderOf(out[j].id)

\* order was preserved for three or more stops that were handed over in
\* another order and that the distance optimization would have reordered
C8_Witness ==
    /\ pc = "quality"
    /\ RoutePayload.preserveOrder
    /\ Len(allStops) >= 3
    /\ IdSeq(optimizedRoute.stops) # IdSeq(allStops)
    /\ IdSeq(optimizedRoute.stops) #
          IdSeq(RouteProcessAlwaysOptimize(RoutePayload, context).stops)

(***************************************************************************)
(* executeSearches, concurrent variant: searchPoints.map(async ...) and    *)
(* Promise.all.  A task runs from one await to the next in one step.       *)
(***************************************************************************)
\* the map callbacks run up to their first await
LaunchSearches ==
    /\ pc = "search"
    /\ task' = [i \in 1..Len(task) |->
                  [task[i] EXCEPT !.pc = IF plan.searchPoints[i].type = "venue"
                                         THEN "searchVenues" ELSE "searchEvents"]]
    /\ flags' = [flags EXCEPT !.eventSearchAttempted =
                    \E i \in 1..Len(task) : plan.searchPoints[i].type = "event"]
    /\ pc' = "await"
    /\ UNCHANGED <<provider, context, plan, allStops, optimizedRoute, qualityResult, response,
                   usedVenueIds, existingEventIds>>

\* the venue search of task t raises an error: the placeholder of the catch
VenueSearchFails ==
  \E t \in 1..Len(task) :
    /\ pc = "await" /\ task[t].pc = "searchVenues"
    /\ allStops' = Append(allStops, PlaceholderStop(plan.searchPoints[t]))
    /\ task' = [task EXCEPT ![t].pc = "done", ![t].searchFailed = TRUE,
                            ![t].pushedAt = Len(allStops) + 1]
    /\ UNCHANGED <<provider, pc, context, plan, optimizedRoute, qualityResult, response,
                   usedVenueIds, existingEventIds, flags>>

\* await googleClient.searchVenues returns to task t, which reads the
\* selected venues and filters
VenueSearchReturns ==
  \E t \in 1..Len(task) :
    /\ pc = "await" /\ task[t].pc = "searchVenues"
    /\ \E found \in SUBSET VenuePool :
          LET filtered == FilterUsed(found, context.selectedVenues, usedVenueIds)
          IN  IF found = {}
              THEN /\ allStops' = Append(allStops, PlaceholderStop(plan.searchPoints[t]))
                   /\ task' = [task EXCEPT ![t].pc = "done",
                                           ![t].pushedAt = Len(allStops) + 1]
              ELSE /\ task' = [task EXCEPT
                          ![t].pc = IF filtered = {} THEN "expandedSearch" ELSE "scoreVenues",
                          ![t].previousIds = Ids(context.selectedVenues),
                          ![t].venues = filtered]
                   /\ UNCHANGED allStops
    /\ UNCHANGED <<provider, pc, context, plan, optimizedRoute, qualityResult, response,
                   usedVenueIds, existingEventIds, flags>>

\* the search with the doubled radius returns to task t
ExpandedSearchReturns ==
  \E t \in 1..Len(task) :
    /\ pc = "await" /\ task[t].pc = "expandedSearch"
    /\ \E expanded \in SUBSET VenuePool :
          task' = [task EXCEPT
                     ![t].pc = "scoreVenues",
                     ![t].venues = FilterExpanded(expanded, task[t].previousIds, usedVenueIds)]
    /\ UNCHANGED <<provider, pc, context, plan, allStops, optimizedRoute, qualityResult, response,
                   usedVenueIds, existingEventIds, flags>>

\* scoreVenues and enrichVenues return to task t: the first venue is recorded
\* as used, the coordinator takes it and looks up the events nearby
ScoreEnrichReturns ==
  \E t \in 1..Len(task) :
    /\ pc = "await" /\ task[t].pc = "scoreVenues"
    /\ IF task[t].venues = {}
       THEN /\ allStops' = Append(allStops, PlaceholderStop(plan.searchPoints[t]))
            /\ task' = [task EXCEPT ![t].pc = "done", ![t].pushedAt = Len(allStops) + 1]
            /\ UNCHANGED <<usedVenueIds, context>>
       ELSE \E first \in task[t].venues :
              /\ usedVenueIds' = usedVenueIds \cup {first.id}
              /\ context' = [context EXCEPT !.selectedVenues = Append(@, first)]
              /\ task' = [task EXCEPT ![t].pc = "nearbyEvents",
                                      ![t].selected = <<first>>]
              /\ UNCHANGED allStops
    /\ UNCHANGED <<provider, pc, plan, optimizedRoute, qualityResult, response,
                   existingEventIds, flags>>

\* the nearby-events lookup of task t returns or fails: the venue is pushed
NearbyEventsReturn ==
  \E t \in 1..Len(task) :
    /\ pc = "await" /\ task[t].pc = "nearbyEvents"
    /\ \E nearby \in NearbyOutcomes :
          /\ allStops' = Append(allStops,
                 attachNearby(VenueStop(task[t].selected[1], plan.searchPoints[t]), nearby))
          /\ task' = [task EXCEPT ![t].pc = "done",
                                  ![t].pushedAt = Len(allStops) + 1]
    /\ UNCHANGED <<provider, pc, context, plan, optimizedRoute, qualityResult, response,
                   usedVenueIds, existingEventIds, flags>>

\* the event search of task t raises an error
EventSearchFails ==
  \E t \in 1..Len(task) :
    /\ pc = "await" /\ task[t].pc = "searchEvents"
    /\ flags' = [flags EXCEPT !.noEventsFound = TRUE]
    /\ task' = [task EXCEPT ![t].pc = "done", ![t].searchFailed = TRUE]
    /\ UNCHANGED <<provider, pc, context, plan, allStops, optimizedRoute, qualityResult, response,
                   usedVenueIds, existingEventIds>>

\* the event agent returns to task t: its first event is taken
EventSearchReturns ==
  \E t \in 1..Len(task) :
    /\ pc = "await" /\ task[t].pc = "searchEvents"
    /\ \E eventResults \in EventResultLists :
          IF eventResults = <<>>
          THEN /\ flags' = [flags EXCEPT !.noEventsFound = TRUE]
               /\ task' = [task EXCEPT ![t].pc = "done"]
               /\ UNCHANGED allStops
          ELSE /\ allStops' = Append(allStops,
                      EventStop(eventResults[1], plan.searchPoints[t]))
               /\ task' = [task EXCEPT ![t].pc = "done", ![t].events = eventResults,
                                       ![t].pushedAt = Len(allStops) + 1]
               /\ UNCHANGED flags
    /\ UNCHANGED <<provider, pc, context, plan, optimizedRoute, qualityResult, response,
                   usedVenueIds, existingEventIds>>

\* await Promise.all(searchPromises), then sort and renumber
Join ==
    /\ pc = "await"
    /\ \A t \in 1..Len(task) : task[t].pc = "done"
    /\ allStops' = sortAndRenumber(allStops)
    /\ pc' = "route"
    /\ UNCHANGED <<provider, context, plan, optimizedRoute, qualityResult, response, task,
                   usedVenueIds, existingEventIds, flags>>

NextConc ==
    \/ LaunchSearches
    \/ VenueSearchFails \/ VenueSearchReturns \/ ExpandedSearchReturns
    \/ ScoreEnrichReturns \/ NearbyEventsReturn
    \/ EventSearchFails \/ EventSearchReturns
    \/ Join

SpecConc == InitConc /\ [][NextConc]_vars

(***************************************************************************)
(* Properties of the sequential resolution (SpecSeq)                       *)
(***************************************************************************)
SearchDone == pc # "search"

PointIs(i, type) == i \in 1..Len(task) /\ plan.searchPoints[i].type = type

\* the stops a search point contributed
StopsOf(i) == SelectSeq(allStops, LAMBDA s : s.purpose = plan.searchPoints[i].purpose)

ProviderIdsUnique(stops) ==
    \A i, j \in 1..Len(stops) :
        (i # j /\ ~stops[i].isPlaceholder /\ ~stops[j].isPlaceholder)
            => stops[i].id # stops[j].id

\* C5: with the points resolved one after the other, no two of the resolved
\* stops that stand for a provider entity (a venue, an event) share an id,
\* whatever the provider returned for the points
C5_SequentialIdsUnique == ProviderIdsUnique(allStops)

\* the provider returned one and the same venue for two venue points, and
\* both points came to a venue of their own in the stops handed to the route
C5_Witness ==
    /\ pc = "route"
    /\ \E i, j \in 1..Len(task) :
          /\ i # j /\ PointIs(i, "venue") /\ PointIs(j, "venue")
          /\ task[i].found = task[j].found /\ Cardinality(task[i].found) = 1
          /\ task[i].venues # {} /\ task[j].venues # {}
    /\ Len(allStops) = 2

\* C9: every venue point that was worked off has exactly one stop: a venue
\* the agent returned, also when the nearby-events lookup failed (then
\* without nearbyEvents), or else, also after a search error, a placeholder
\* with the point's query as name at the point's location
C9_OneStopPerVenuePoint ==
    \A i \in 1..Len(task) :
        (PointIs(i, "venue") /\ task[i].pc = "done") =>
            /\ Len(StopsOf(i)) = 1
            /\ LET stop == StopsOf(i)[1]
                   point == plan.searchPoints[i]
               IN  IF task[i].venues = {}
                   THEN /\ stop.isPlaceholder
                        /\ stop.name = point.query
                        /\ stop.location = point.location
                   ELSE /\ ~stop.isPlaceholder
                        /\ stop.id \in {v.id : v \in task[i].venues}
                        /\ task[i].nearby \in {"none", "failed"}
                               => stop.nearbyEvents = <<>>

\* the search of a venue point that the local adjustment had moved raised an
\* error, and the nearby-events lookup of another venue point failed
C9_Witness ==
    /\ pc = "route"
    /\ \E i, j \in 1..Len(task) :
          /\ PointIs(i, "venue") /\ task[i].searchFailed
          /\ plan.searchPoints[i].location.lng # 0
          /\ PointIs(j, "venue") /\ task[j].nearby = "failed"

\* C10: once the searches are over, an event point without a stop means that
\* noEventsFound is true in the search result
C10_NoStopImpliesFlag ==
    \A i \in 1..Len(task) :
        (SearchDone /\ PointIs(i, "event") /\ StopsOf(i) = <<>>) =>
            flags.eventSearchAttempted /\ flags.noEventsFound

(***************************************************************************)
(* Properties of the concurrent resolution (SpecConc)                      *)
(***************************************************************************)
Joined == pc = "route"

\* the search point a stop was resolved for
PointOf(stop) ==
    CHOOSE i \in 1..Len(plan.searchPoints) : plan.searchPoints[i].purpose = stop.purpose

StopNumberOf(stop) == plan.searchPoints[PointOf(stop)].stopNumber

\* two venue tasks selected the same venue
SameVenueSelected(t, u) ==
    /\ t # u
    /\ task[t].selected # <<>> /\ task[u].selected # <<>>
    /\ task[t].selected[1].id = task[u].selected[1].id

\* C6: two venue tasks select the same venue only if neither had the venue
\* among the selected venues it read before filtering, that is, if both
\* filtered before either recorded its selection; the interleaving exists
\* (C6_Witness), so the joined stops can hold one id twice
C6_DuplicatesOnlyByRace ==
    \A t, u \in 1..Len(task) :
        SameVenueSelected(t, u) =>
            /\ task[t].selected[1].id \notin task[t].previousIds
            /\ task[t].selected[1].id \notin task[u].previousIds

\* the joined stops hold two venues with the same id, of two tasks that both
\* read an empty set of selected venues
C6_Witness ==
    /\ Joined
    /\ \E t, u \in 1..Len(task) :
          /\ SameVenueSelected(t, u)
          /\ task[t].previousIds = {} /\ task[u].previousIds = {}
    /\ \E i, j \in 1..Len(allStops) :
          /\ i # j
          /\ ~allStops[i].isPlaceholder /\ ~allStops[i].isEvent
          /\ allStops[i].id = allStops[j].id

\* C7 as stated: the joined stops are in the order of their points'
\* stopNumber, and in the same order whichever task finished first, which is
\* then the order the tasks finishing in plan order give: points with equal
\* stopNumber in plan order
C7_AsStated ==
    Joined =>
        \A i, j \in 1..Len(allStops) :
            i < j =>
                \/ StopNumberOf(allStops[i]) < StopNumberOf(allStops[j])
                \/ /\ StopNumberOf(allStops[i]) = StopNumberOf(allStops[j])
                   /\ PointOf(allStops[i]) < PointOf(allStops[j])

\* C7 amended: the joined stops are in ascending order of their points'
\* stopNumber and numbered 1..N, so that two stops of points with different
\* stopNumbers stand in the same order whichever task finished first
C7_SortedByStopNumber ==
    Joined =>
        /\ \A i, j \in 1..Len(allStops) :
              i < j => StopNumberOf(allStops[i]) <= StopNumberOf(allStops[j])
        /\ \A i \in 1..Len(allStops) : allStops[i].order = i

\* the task of the point with the higher stopNumber pushed its stop first
C7_Witness ==
    /\ Joined
    /\ \E t, u \in 1..Len(task) :
          /\ plan.searchPoints[t].stopNumber < plan.searchPoints[u].stopNumber
          /\ task[u].pushedAt > 0
          /\ task[u].pushedAt < task[t].pushedAt


(***************************************************************************)
(* EventSpecialistAgent.process, one provider request at a time.  A string *)
(* is the sequence of its characters.                                      *)
(***************************************************************************)
jazz == <<"j", "a", "z", "z">>

Jazz == <<"J", "a", "z", "z">>

live == <<"l", "i", "v", "e">>

show == <<"s", "h", "o", "w">>

the == <<"t", "h", "e">>

music == <<"m", "u", "s", "i", "c">>

RECURSIVE join(_)
\* tokens.join(' ')
join(tokens) ==
    IF tokens = <<>> THEN <<>>
    ELSE IF Len(tokens) = 1 THEN tokens[1]
    ELSE tokens[1] \o <<" ">> \o join(Tail(tokens))

RECURSIVE splitRec(_, _)
splitRec(s, cur) ==
    LET done == IF cur = <<>> THEN <<>> ELSE <<cur>>
    IN  IF s = <<>> THEN done
        ELSE IF Head(s) = " " THEN done \o splitRec(Tail(s), <<>>)
        ELSE splitRec(Tail(s), Append(cur, Head(s)))

\* s.split(/\s+/).filter(Boolean)
split(s) == splitRec(s, <<>>)

RECURSIVE trim(_)
trim(s) ==
    IF s = <<>> THEN s
    ELSE IF Head(s) = " " THEN trim(Tail(s))
    ELSE IF s[Len(s)] = " " THEN trim(SubSeq(s, 1, Len(s) - 1))
    ELSE s

STOPWORDS ==
    { <<"a">>, <<"a", "n">>, the, <<"a", "n", "y">>, <<"s", "o", "m", "e">>,
      <<"p", "l", "e", "a", "s", "e">>, <<"e", "v", "e", "n", "t">>,
      <<"e", "v", "e", "n", "t", "s">>, show, <<"s", "h", "o", "w", "s">>,
      <<"t", "o">>, <<"i", "n">>, <<"a", "t">>, <<"f", "o", "r">>,
      <<"n", "e", "a", "r">>, <<"a", "r", "o", "u", "n", "d">>, <<"o", "f">>,
      <<"a", "n", "d">>, <<"t", "h", "e", "n">> }

\* the characters of /[.,;:!?/\\|]+/
Punctuation == {".", ",", ";", ":", "!", "?", "/", "\\", "|"}

\* replace punctuation by a space, collapse runs of white space, trim
normalize(s) ==
    join(split([i \in 1..Len(s) |-> IF s[i] \in Punctuation THEN " " ELSE s[i]]))

\* the words of /\b(event|events|show|shows)\b$/i
GenericTail ==
    { <<"e", "v", "e", "n", "t">>, <<"e", "v", "e", "n", "t", "s">>, show,
      <<"s", "h", "o", "w", "s">> }

\* original.replace(/\b(event|events|show|shows)\b$/i, ''): the word has to
\* end the string and to start it or follow a character that is no word
\* character
dropTail(original) ==
    LET n == Len(original)
        hits == {w \in GenericTail :
                    /\ n >= Len(w)
                    /\ toLowerCase(SubSeq(original, n - Len(w) + 1, n)) = w
                    /\ (n = Len(w) \/ original[n - Len(w)] \in Punctuation \cup {" ", "-"})}
    IN  IF hits = {} THEN original
        ELSE SubSeq(original, 1, n - Len(CHOOSE w \in hits : TRUE))

RECURSIVE pushNew(_, _)
\* for (const t of cands) if (t && !terms.includes(t)) terms.push(t)
pushNew(terms, cands) ==
    IF cands = <<>> THEN terms
    ELSE pushNew(IF Head(cands) # <<>> /\ Head(cands) \notin Range(terms)
                 THEN Append(terms, Head(cands)) ELSE terms,
                 Tail(cands))

buildFallbackTermsFromPhrase(phrase) ==
    LET original == normalize(phrase)
        dropped  == trim(dropTail(original))
        first    == <<original>> \o
                    (IF dropped # <<>> /\ dropped # original THEN <<dropped>> ELSE <<>>)
        tokens   == split(toLowerCase(original))
        \* for (let end = tokens.length - 1; end >= 2; end--)
        shorter  == [k \in 1..Max2(0, Len(tokens) - 2) |->
                        trim(join(SubSeq(tokens, 1, Len(tokens) - k)))]
        kept     == SelectSeq(tokens, LAMBDA t : t \notin STOPWORDS)
        singles  == StableSortDesc(kept, [i \in 1..Len(kept) |-> Len(kept[i])])
    IN  IF original = <<>> THEN <<>>
        ELSE pushNew(<<>>, pushNew(pushNew(first, shorter), singles))

\* params.f of a payload that may lack the field
Field(params, f, absent) == IF f \in DOMAIN params THEN params[f] ELSE absent

buildSearchTerms(params) ==
    LET provided == Field(params, "event_keywords", <<>>)
        cleaned  == SelectSeq([i \in 1..Len(provided) |-> normalize(provided[i])],
                              LAMBDA t : t # <<>>)
        base     == IF Field(params, "query", <<>>) # <<>> THEN params.query
                    ELSE Field(params, "keyword", <<>>)
        built    == buildFallbackTermsFromPhrase(base)
    IN  IF Field(params, "noKeywords", FALSE) = TRUE THEN <<>>
        ELSE IF Len(provided) > 0 THEN cleaned
        ELSE IF Len(built) > 0 THEN built
        ELSE <<music>>

\* radius is set to 5 km for every event search
adaptSearchParams(params) == [params EXCEPT !.radiusKm = 5]

\* executeSearches, event branch: the payload of callAgent('event', ...)
EventPayload(point) ==
    [location |-> point.location, radiusKm |-> 5,
     keywords |-> IF Len(point.event_keywords) > 0 THEN point.event_keywords
                  ELSE IF point.query # <<>> THEN <<point.query>> ELSE <<>>,
     query |-> point.query, limit |-> 5]

\* executeSearches, venue branch: the payload of the nearby-events lookup
NearbyPayload(location) ==
    [location |-> location, radiusKm |-> 2, noKeywords |-> TRUE, limit |-> 5]

\* mutant of targetCount: the ladder stops one event later
targetCountOneMore(durationType) == IF durationType = "few_hours" THEN 6 ELSE 16

targetCount(durationType) == IF durationType = "few_hours" THEN 5 ELSE 15

rankLimit(durationType) == IF durationType = "few_hours" THEN 3 ELSE 10

\* TicketmasterClient.pickKeyword
pickKeyword(params) ==
    LET s1  == trim(Field(params, "keyword", <<>>))
        arr == Field(params, "keywords", <<>>)
        s3  == trim(Field(params, "query", <<>>))
    IN  IF s1 # <<>> THEN s1
        ELSE IF Len(arr) > 0 /\ trim(arr[1]) # <<>> THEN trim(arr[1])
        ELSE s3

\* the request of one attempt: the minimal base and the term in all three places
attemptParams(params, term) ==
    [location |-> params.location, radiusKm |-> 5, limit |-> params.limit,
     keywords |-> <<term>>, keyword |-> term, query |-> term]

blankParams(params) ==
    [location |-> params.location, radiusKm |-> 5, limit |-> params.limit]

IdRange(a, b) == [i \in 1..(b - a + 1) |-> a + i - 1]

\* what one request to the event provider can come to: the request throws, or
\* the provider answers with at most `size` events (ids 1..15)
EventOutcomes ==
    {[failed |-> TRUE, events |-> <<>>]} \cup
    {[failed |-> FALSE, events |-> b] :
        b \in {<<>>, IdRange(1, 3), IdRange(1, 5), IdRange(4, 8), IdRange(9, 13),
               IdRange(14, 15)}}

\* TicketmasterClient.searchEvents: an error is caught and gives []
searchEvents(outcome) == IF outcome.failed THEN <<>> ELSE outcome.events

\* for (const ev of batch) if (ev.id && !seen.has(ev.id)) collected.push(ev)
collect(collected, batch) ==
    collected \o SelectSeq(batch, LAMBDA id : id \notin Range(collected))

\* what GPT's ranking can come to: none (every score 0.5) or the reverse order
RankOutcomes == {"none", "reverse"}

rankEvents(events, ranking, durationType) ==
    LET score  == [i \in 1..Len(events) |-> IF ranking = "none" THEN 5 ELSE i]
        sorted == StableSortDesc(events, score)
    IN  SubSeq(sorted, 1, Min2(Len(sorted), rankLimit(durationType)))

\* event search points: analyzer keywords and free-text query
EventPointPool ==
    { [location |-> Loc(20), query |-> q, event_keywords |-> k] :
        q \in { <<>>, <<",">>, jazz, join(<<Jazz, show>>), join(<<live, Jazz, show>>),
                join(<<the, show>>) },
        k \in { <<>>, <<jazz>>, <<<<",">>>>, <<join(<<live, music>>), jazz>> } }

NoPoint == [location |-> Loc(8), query |-> <<>>, event_keywords |-> <<>>]

EventCall(mode, point) ==
    [agent |-> "event", pc |-> "start", mode |-> mode, point |-> point,
     params |-> IF mode = "nearby" THEN NearbyPayload(point.location)
                ELSE EventPayload(point),
     terms |-> <<>>, next |-> 1, collected |-> <<>>, calls |-> <<>>,
     targetCount |-> 0, result |-> <<>>]

InitEvent ==
    /\ pc = "search"
    /\ \E d \in DurationTypes :
          context = [location |-> Loc(0), durationType |-> d,
                     constraints |-> [sequence_matters |-> FALSE],
                     selectedVenues |-> <<>>]
    /\ plan = [searchStrategy |-> [type |-> "balanced"], isLocalSearch |-> FALSE,
               title |-> TRUE, description |-> TRUE, searchPoints |-> <<>>]
    /\ task = <<>>
    /\ allStops = <<>>
    /\ optimizedRoute = NoRoute
    /\ qualityResult = NoQuality
    /\ response = NoResponse
    /\ usedVenueIds = {}
    /\ existingEventIds = {}
    /\ flags = NoFlags
    /\ \/ provider = EventCall("nearby", NoPoint)
       \/ \E point \in EventPointPool : provider = EventCall("primary", point)

pipelineVars == <<pc, context, plan, allStops, optimizedRoute, qualityResult, response,
                  task, usedVenueIds, existingEventIds, flags>>

\* process, up to the call of searchWithFallback
EventProcess ==
    /\ provider.agent = "event" /\ provider.pc = "start"
    /\ LET searchParams == adaptSearchParams(provider.params)
       IN  provider' = [provider EXCEPT !.pc = "ladder",
                           !.params = searchParams,
                           !.terms = buildSearchTerms(searchParams),
                           !.targetCount = targetCount(context.durationType)]
    /\ UNCHANGED pipelineVars

\* searchWithFallback, terms.length === 0: a single request without keyword
EventBlankAttempt ==
    /\ provider.agent = "event" /\ provider.pc = "ladder"
    /\ provider.terms = <<>>
    /\ \E outcome \in EventOutcomes :
          provider' = [provider EXCEPT !.pc = "rank",
                          !.collected = collect(@, searchEvents(outcome)),
                          !.calls = Append(@, [keyword |-> pickKeyword(blankParams(provider.params)),
                                               before |-> Len(provider.collected),
                                               failed |-> outcome.failed])]
    /\ UNCHANGED pipelineVars

\* mutant of EventTermAttempt: a failed request for the last term is repeated
EventTermAttemptRetry ==
    /\ provider.agent = "event" /\ provider.pc = "ladder"
    /\ provider.terms # <<>>
    /\ \E outcome \in EventOutcomes :
          LET term == provider.terms[provider.next]
              got  == collect(provider.collected, searchEvents(outcome))
              last == provider.next = Len(provider.terms)
              stop == \/ Len(got) >= provider.targetCount
                      \/ last /\ (~outcome.failed \/ Len(provider.calls) >= Len(provider.terms))
          IN  provider' = [provider EXCEPT !.pc = IF stop THEN "rank" ELSE "ladder",
                              !.next = IF stop \/ last THEN @ ELSE @ + 1,
                              !.collected = got,
                              !.calls = Append(@, [keyword |-> pickKeyword(attemptParams(provider.params, term)),
                                                   before |-> Len(provider.collected),
                                                   failed |-> outcome.failed])]
    /\ UNCHANGED pipelineVars

\* searchWithFallback, one turn of for (const term of terms)
EventTermAttempt ==
    /\ provider.agent = "event" /\ provider.pc = "ladder"
    /\ provider.terms # <<>>
    /\ \E outcome \in EventOutcomes :
          LET term == provider.terms[provider.next]
              got  == collect(provider.collected, searchEvents(outcome))
              stop == Len(got) >= provider.targetCount \/ provider.next = Len(provider.terms)
          IN  provider' = [provider EXCEPT !.pc = IF stop THEN "rank" ELSE "ladder",
                              !.next = IF stop THEN @ ELSE @ + 1,
                              !.collected = got,
                              !.calls = Append(@, [keyword |-> pickKeyword(attemptParams(provider.params, term)),
                                                   before |-> Len(provider.collected),
                                                   failed |-> outcome.failed])]
    /\ UNCHANGED pipelineVars

\* process, from rankEvents to the return
EventRank ==
    /\ provider.agent = "event" /\ provider.pc = "rank"
    /\ \E ranking \in RankOutcomes :
          provider' = [provider EXCEPT !.pc = "returned",
                          !.result = rankEvents(provider.collected, ranking,
                                                context.durationType)]
    /\ UNCHANGED pipelineVars

NextEvent == EventProcess \/ EventBlankAttempt \/ EventTermAttempt \/ EventRank

SpecEvent == InitEvent /\ [][NextEvent]_vars

(***************************************************************************)
(* Claims checked against SpecEvent                                        *)
(***************************************************************************)
EventCalled == provider.agent = "event" /\ provider.pc # "start"

EventReturned == provider.agent = "event" /\ provider.pc = "returned"

\* C12 as stated: searchWithFallback issues at most ladder.length provider
\* requests, the empty ladder included
C12_AsStated == EventCalled => Len(provider.calls) <= Len(provider.terms)

\* how far the call is from its return: the stage it is in and, in the ladder,
\* the requests it can still issue
StageRank(p) == CASE p.pc = "start" -> 3 [] p.pc = "ladder" -> 2 [] p.pc = "rank" -> 1 [] OTHER -> 0

RequestsLeft(p) == Max2(1, Len(p.terms)) - Len(p.calls)

\* C12: searchWithFallback always returns: every step brings the call nearer
\* to its return in a well-founded order, so none loops; and it issues at most
\* one provider request per term of the ladder, or exactly one request
\* without keyword when the ladder is empty, whatever the provider answers
C12_TerminatesWithinLadder ==
    [][/\ provider.agent = "event" /\ provider'.agent = "event"
       /\ \/ StageRank(provider') < StageRank(provider)
          \/ /\ StageRank(provider') = StageRank(provider)
             /\ RequestsLeft(provider') < RequestsLeft(provider)
       /\ RequestsLeft(provider') >= 0
       /\ provider'.pc = "ladder" /\ provider'.terms # <<>>
             => provider'.next <= Len(provider'.terms)
       /\ provider'.pc \in {"rank", "returned"} /\ provider'.terms = <<>>
             => Len(provider'.calls) = 1]_vars

C12_Witness ==
    /\ EventReturned
    /\ provider.terms = <<>>
    /\ Len(provider.calls) = 1
    /\ provider.calls[1].keyword = <<>>

\* the result count the claim names as target
StatedTarget == IF context.durationType = "few_hours" THEN 3 ELSE 10

\* C13 as stated: no provider request is issued once 3 (few_hours) or 10
\* (otherwise) distinct events are collected
C13_AsStated ==
    EventCalled => \A k \in 1..Len(provider.calls) : provider.calls[k].before < StatedTarget

\* C13: the terms are tried in ladder order, and no provider request is issued
\* once 5 (few_hours) or 15 (otherwise) distinct events are collected
C13_StopsAtTarget ==
    EventCalled /\ provider.terms # <<>> =>
        /\ Len(provider.calls) <= Len(provider.terms)
        /\ \A k \in 1..Len(provider.calls) :
              /\ provider.calls[k].keyword = provider.terms[k]
              /\ provider.calls[k].before <
                    (IF context.durationType = "few_hours" THEN 5 ELSE 15)

C13_Witness ==
    /\ EventReturned
    /\ context.durationType = "few_hours"
    /\ Len(provider.collected) >= 5
    /\ Len(provider.calls) = 2
    /\ provider.calls[2].before = 3
    /\ Len(provider.calls) < Len(provider.terms)

\* the ladder the claim names for a point
StatedLadder(point) ==
    IF Len(point.event_keywords) > 0 THEN point.event_keywords
    ELSE IF normalize(point.query) # <<>> THEN buildFallbackTermsFromPhrase(point.query)
    ELSE <<music>>

\* C14: the ladder of a primary event point is its keyword list when it has
\* one, is derived from its query only when it has none, and is the generic
\* term only when it has neither; the provider is sent these terms in order
C14_LadderFromKeywords ==
    EventCalled /\ provider.mode = "primary" =>
        /\ provider.terms = StatedLadder(provider.point)
        /\ Len(provider.calls) <= Len(StatedLadder(provider.point))
        /\ \A k \in 1..Len(provider.calls) :
              provider.calls[k].keyword = StatedLadder(provider.point)[k]

(***************************************************************************)
(* VenueSpecialistAgent.process over GoogleMapsClient.searchVenues, one     *)
(* provider request at a time; calls of the agent follow one another, for  *)
(* the next point of the request or for the first point of a new request.  *)
(* Radii are metres.                                                       *)
(***************************************************************************)
MaxCalls == 2

\* venue search points with the radius the coordinator passes for them
VenuePointPool ==
    { [query |-> <<"q", "1">>, category |-> "restaurant", location |-> Loc(10),
       radius |-> 2000, isExplicitRequest |-> FALSE],
      [query |-> <<"q", "2">>, category |-> "landmark", location |-> Loc(-20),
       radius |-> 1500, isExplicitRequest |-> TRUE],
      [query |-> <<"q", "3">>, category |-> "park", location |-> Loc(10),
       radius |-> 1500, isExplicitRequest |-> TRUE],
      [query |-> <<"q", "4">>, category |-> "cafe", location |-> Loc(-20),
       radius |-> 1500, isExplicitRequest |-> FALSE] }

\* executeSearches, venue branch: the payload of callAgent('venue', ...)
VenuePayload(point) ==
    [query |-> point.query, location |-> point.location, category |-> point.category,
     radius |-> point.radius, limit |-> 3]

\* what one request to the place provider can come to: the request throws, or
\* the provider answers with some places
VenueOutcomes ==
    {[failed |-> TRUE, places |-> {}]} \cup
    {[failed |-> FALSE, places |-> S] : S \in SUBSET VenuePool}

\* Strategy 1 is for googleType restaurant and cafe only
HasNearbySearch(category) == category \in {"food", "restaurant", "coffee", "cafe"}

\* Strategy 4 is for category landmark only
HasLandmarkSearch(category) == category = "landmark"

FirstStrategy(category) == IF HasNearbySearch(category) THEN 1 ELSE 2

\* Strategy 3 keeps the places nearer than twice the radius
withinTwiceRadius(places, location, radius) ==
    {v \in places : calculateDistance(location, v.location) * 50 < radius * 2}

VenueCall(request, call, point) ==
    [agent |-> "venue", pc |-> "start", request |-> request, call |-> call, point |-> point,
     params |-> VenuePayload(point), search |-> 0, strategy |-> 0,
     firstResult |-> "pending", found |-> {}, previouslySelected |-> <<>>, used |-> {}, filtered |-> {},
     venues |-> {}, calls |-> <<>>, searches |-> <<>>, result |-> <<>>]

InitVenue ==
    /\ pc = "search"
    /\ context = [location |-> Loc(0), durationType |-> "full_day",
                  constraints |-> [sequence_matters |-> FALSE],
                  selectedVenues |-> <<>>]
    /\ plan = [searchStrategy |-> [type |-> "balanced"], isLocalSearch |-> FALSE,
               title |-> TRUE, description |-> TRUE, searchPoints |-> <<>>]
    /\ task = <<>>
    /\ allStops = <<>>
    /\ optimizedRoute = NoRoute
    /\ qualityResult = NoQuality
    /\ response = NoResponse
    /\ usedVenueIds = {}
    /\ existingEventIds = {}
    /\ flags = NoFlags
    /\ \E point \in VenuePointPool : provider = VenueCall(1, 1, point)

agentVars == <<pc, plan, allStops, optimizedRoute, qualityResult, response, task,
               existingEventIds, flags>>

\* process, up to the first searchVenues
VenueProcess ==
    /\ provider.agent = "venue" /\ provider.pc = "start"
    /\ provider' = [provider EXCEPT !.pc = "client", !.search = 1,
                       !.strategy = FirstStrategy(provider.params.category),
                       !.searches = <<provider.params.radius>>]
    /\ UNCHANGED <<agentVars, context, usedVenueIds>>

\* the radius of the searchVenues call in progress
SearchRadius(p) == p.searches[Len(p.searches)]

Logged(p, outcome) ==
    Append(p.calls, [search |-> p.search, strategy |-> p.strategy,
                     radius |-> SearchRadius(p), failed |-> outcome.failed])

\* mutant of ClientReturns: an empty first search also leads to the wider one
ClientReturnsRetriesEmpty(p, found) ==
    LET filtered == FilterUsed(found, context.selectedVenues, usedVenueIds)
    IN  IF p.search = 1
        THEN IF filtered = {} /\ p.params.radius # 0
             THEN [p EXCEPT !.pc = "client", !.search = 2,
                      !.strategy = FirstStrategy(p.params.category),
                      !.firstResult = IF found = {} THEN "empty" ELSE "found",
                      !.found = found,
                      !.previouslySelected = context.selectedVenues,
                      !.used = usedVenueIds,
                      !.searches = Append(@, p.params.radius * 2)]
             ELSE [p EXCEPT !.pc = "score", !.strategy = 0,
                      !.firstResult = IF found = {} THEN "empty" ELSE "found",
                      !.found = found,
                      !.previouslySelected = context.selectedVenues,
                      !.used = usedVenueIds,
                      !.filtered = filtered, !.venues = filtered]
        ELSE [p EXCEPT !.pc = "score", !.strategy = 0,
                 !.venues = FilterExpanded(found, Ids(context.selectedVenues), usedVenueIds)]

\* searchVenues returns `found` to process: the filter, the wider search, or on
\* to scoring
ClientReturns(p, found) ==
    LET filtered == FilterUsed(found, context.selectedVenues, usedVenueIds)
    IN  IF p.search = 1
        THEN IF found = {}
             THEN [p EXCEPT !.pc = "returned", !.strategy = 0, !.firstResult = "empty"]
             ELSE IF filtered = {} /\ p.params.radius # 0
                  THEN [p EXCEPT !.pc = "client", !.search = 2,
                           !.strategy = FirstStrategy(p.params.category),
                           !.firstResult = IF found = {} THEN "empty" ELSE "found",
                      !.found = found,
                           !.previouslySelected = context.selectedVenues,
                           !.used = usedVenueIds,
                           !.searches = Append(@, p.params.radius * 2)]
                  ELSE [p EXCEPT !.pc = "score", !.strategy = 0,
                           !.firstResult = IF found = {} THEN "empty" ELSE "found",
                      !.found = found,
                           !.previouslySelected = context.selectedVenues,
                           !.used = usedVenueIds,
                           !.filtered = filtered, !.venues = filtered]
        ELSE [p EXCEPT !.pc = "score", !.strategy = 0,
                 !.venues = FilterExpanded(found, Ids(context.selectedVenues), usedVenueIds)]

\* Strategy 1, nearby search: its own catch lets an error fall through to the
\* text search
NearbySearch ==
    /\ provider.agent = "venue" /\ provider.pc = "client" /\ provider.strategy = 1
    /\ \E outcome \in VenueOutcomes :
          LET p == [provider EXCEPT !.calls = Logged(provider, outcome)]
          IN  provider' = IF outcome.places # {} THEN ClientReturns(p, outcome.places)
                          ELSE [p EXCEPT !.strategy = 2]
    /\ UNCHANGED <<agentVars, context, usedVenueIds>>

\* Strategy 2, text search with location bias: an error goes to the catch of
\* searchVenues, which returns []
TextSearch ==
    /\ provider.agent = "venue" /\ provider.pc = "client" /\ provider.strategy = 2
    /\ \E outcome \in VenueOutcomes :
          LET p == [provider EXCEPT !.calls = Logged(provider, outcome)]
          IN  provider' = IF outcome.failed THEN ClientReturns(p, {})
                          ELSE IF outcome.places # {} THEN ClientReturns(p, outcome.places)
                          ELSE [p EXCEPT !.strategy = 3]
    /\ UNCHANGED <<agentVars, context, usedVenueIds>>

\* Strategy 3, broader text search, filtered to twice the radius; Strategy 4
\* follows only for a landmark and only if the provider returned no place
BroaderSearch ==
    /\ provider.agent = "venue" /\ provider.pc = "client" /\ provider.strategy = 3
    /\ \E outcome \in VenueOutcomes :
          LET p == [provider EXCEPT !.calls = Logged(provider, outcome)]
              nearbyPlaces == withinTwiceRadius(outcome.places, provider.params.location,
                                                SearchRadius(provider))
          IN  provider' = IF outcome.failed THEN ClientReturns(p, {})
                          ELSE IF nearbyPlaces # {} THEN ClientReturns(p, nearbyPlaces)
                          ELSE IF outcome.places = {} /\ HasLandmarkSearch(provider.params.category)
                               THEN [p EXCEPT !.strategy = 4]
                          ELSE ClientReturns(p, {})
    /\ UNCHANGED <<agentVars, context, usedVenueIds>>

\* Strategy 4, landmark search without location: the top match only
LandmarkSearch ==
    /\ provider.agent = "venue" /\ provider.pc = "client" /\ provider.strategy = 4
    /\ \E outcome \in VenueOutcomes :
          LET p == [provider EXCEPT !.calls = Logged(provider, outcome)]
          IN  IF outcome.places = {} THEN provider' = ClientReturns(p, {})
              ELSE \E top \in outcome.places : provider' = ClientReturns(p, {top})
    /\ UNCHANGED <<agentVars, context, usedVenueIds>>

\* scoreVenues, enrichVenues, the first venue is recorded as used, return
VenueScore ==
    /\ provider.agent = "venue" /\ provider.pc = "score"
    /\ \E ranked \in Perms(provider.venues) :
          /\ provider' = [provider EXCEPT !.pc = "returned", !.result = ranked]
          /\ IF ranked # <<>>
             THEN /\ usedVenueIds' = usedVenueIds \cup {ranked[1].id}
                  /\ context' = [context EXCEPT !.selectedVenues = Append(@, ranked[1])]
             ELSE UNCHANGED <<usedVenueIds, context>>
    /\ UNCHANGED agentVars

\* the coordinator calls the agent for the next venue point of the request
NextPointCall ==
    /\ provider.agent = "venue" /\ provider.pc = "returned"
    /\ provider.call < MaxCalls
    /\ \E point \in VenuePointPool :
          provider' = VenueCall(provider.request, provider.call + 1, point)
    /\ UNCHANGED <<agentVars, context, usedVenueIds>>

\* processItinerary of a later request: a new session context, the same agents
NewRequest ==
    /\ provider.agent = "venue" /\ provider.pc = "returned"
    /\ provider.call < MaxCalls
    /\ context' = [context EXCEPT !.selectedVenues = <<>>]
    /\ \E point \in VenuePointPool :
          provider' = VenueCall(provider.request + 1, provider.call + 1, point)
    /\ UNCHANGED <<agentVars, usedVenueIds>>

NextVenue ==
    \/ VenueProcess \/ NearbySearch \/ TextSearch \/ BroaderSearch \/ LandmarkSearch
    \/ VenueScore \/ NextPointCall \/ NewRequest

SpecVenue == InitVenue /\ [][NextVenue]_vars


(***************************************************************************)
(* Claims checked against SpecVenue                                        *)
(***************************************************************************)
VenueReturned == provider.agent = "venue" /\ provider.pc = "returned"

\* searchVenues call n of the agent call in progress has returned
SearchOver(n) ==
    /\ provider.agent = "venue"
    /\ provider.search > n \/ (provider.search = n /\ provider.pc \in {"score", "returned"})

\* the strategy searchVenues tries after an empty answer to strategy s
HasNextStrategy(s, category) == s \in {1, 2} \/ (s = 3 /\ HasLandmarkSearch(category))

\* the event half of C11: after a failed request the next term is requested
EventFailureIsEmptyAttempt ==
    EventReturned =>
        \A k \in 1..Len(provider.calls) :
            provider.calls[k].failed /\ k < Len(provider.terms)
                /\ provider.calls[k].before < provider.targetCount
            => Len(provider.calls) > k

\* the venue half of C11: after a failed request the next strategy of the
\* same search is requested
VenueFailureIsEmptyAttempt ==
    provider.agent = "venue" =>
        \A k \in 1..Len(provider.calls) :
            LET c == provider.calls[k]
            IN  c.failed /\ SearchOver(c.search)
                    /\ HasNextStrategy(c.strategy, provider.params.category)
                => \E j \in (k + 1)..Len(provider.calls) :
                       /\ provider.calls[j].search = c.search
                       /\ provider.calls[j].strategy = c.strategy + 1

\* C11: a provider failure counts as an empty answer to that one request: the
\* fallback requests that remain for the point (next ladder term, next search
\* strategy) are still issued
C11_FailureIsEmptyAttempt == EventFailureIsEmptyAttempt /\ VenueFailureIsEmptyAttempt

\* C15 as stated: after a first search without candidates the agent searches
\* exactly once more, at twice the radius
C15_AsStated ==
    VenueReturned /\ provider.firstResult = "empty" =>
        provider.searches = <<provider.params.radius, 2 * provider.params.radius>>

\* C15: after a first search without candidates the agent searches no further
\* and returns nothing (the point gets its placeholder); it searches exactly
\* once more, at twice the radius, when the first search had candidates and
\* the dedup filter removed them all
C15_RetryOnlyAfterFilter ==
    VenueReturned =>
        LET eligible == FilterUsed(provider.found, provider.previouslySelected, provider.used)
        IN  /\ provider.firstResult \in {"empty", "found"}
            /\ provider.firstResult = "empty" =>
                  provider.searches = <<provider.params.radius>> /\ provider.result = <<>>
            /\ provider.firstResult = "found" /\ eligible = {} =>
                  provider.searches = <<provider.params.radius, 2 * provider.params.radius>>
            /\ provider.firstResult = "found" /\ eligible # {} =>
                  provider.searches = <<provider.params.radius>>

C15_Witness ==
    /\ VenueReturned
    /\ provider.firstResult = "empty"
    /\ Len(provider.calls) >= 2
    /\ \A k \in 1..Len(provider.calls) : ~provider.calls[k].failed
    /\ provider.searches = <<provider.params.radius>>
    /\ provider.result = <<>>

\* C16: for an explicit-request venue point the dedup filter is bypassed: every
\* candidate of the first search stays eligible and no wider search is needed
C16_ExplicitBypassesDedup ==
    provider.agent = "venue" /\ provider.point.isExplicitRequest
        /\ provider.firstResult = "found" =>
        /\ provider.search = 1
        /\ provider.pc = "score" => provider.venues = provider.found

\* C17: the dedup state is per request: a candidate is excluded only for an
\* entity selected in the same request (by id or by near-duplicate name)
C17_DedupStatePerRequest ==
    provider.agent = "venue" /\ provider.firstResult = "found" =>
        \A v \in provider.found :
            v \notin FilterUsed(provider.found, provider.previouslySelected, provider.used)
            => \/ v.id \in Ids(provider.previouslySelected)
               \/ similarName(provider.previouslySelected, v)


(***************************************************************************)
(* Further claims checked against Spec                                     *)
(***************************************************************************)
\* C18: the route agent removes no stop: in every mode the route holds every
\* stop of its input exactly once
C18_RouteKeepsEveryStop ==
    Routed =>
        /\ Len(optimizedRoute.stops) = Len(allStops)
        /\ Ids(optimizedRoute.stops) = Ids(allStops)

RemovedIds == Ids(optimizedRoute.stops) \ Ids(qualityResult.itinerary.stops)

\* the stops of the route that the repair may remove
Removable == {s \in Range(optimizedRoute.stops) : ~Exempt(s)}

\* C20: when the distance check or the localConstraints check fails (one of
\* the two, and no timing issue) on an itinerary with a stop that may be
\* removed, the repair removes exactly one stop, a removable stop furthest
\* from the origin
C20_RemovesFurthestOnly ==
    ( /\ Validated
      /\ IssueRaised("distance") # IssueRaised("localConstraints")
      /\ ~IssueRaised("timing")
      /\ Removable # {} )
    => \E s \in Removable :
          /\ RemovedIds = {s.id}
          /\ \A r \in Removable :
                calculateDistance(context.location, r.location)
                    <= calculateDistance(context.location, s.location)


\* the repaired itinerary put through the same repairs once more
RepairedAgain ==
    attemptFixes(qualityResult.itinerary, qualityResult.issues, context)

\* C21: repairing an already repaired itinerary with the same issue list
\* leaves its stops and its flags as the first repair left them
C21_RepairIdempotent ==
    Validated /\ qualityResult.issues # <<>> =>
        /\ IdSeq(RepairedAgain.stops) = IdSeq(qualityResult.itinerary.stops)
        /\ RepairedAgain.distanceWarning = qualityResult.itinerary.distanceWarning
        /\ RepairedAgain.needsVariety = qualityResult.itinerary.needsVariety
        /\ RepairedAgain.localSearchAdjusted
               = qualityResult.itinerary.localSearchAdjusted


\* the positions of the route at which validateTiming finds that the event
\* cannot be reached in time; the check reports the first of them
Unreachable ==
    LET stops == optimizedRoute.stops
    IN  {i \in 2..Len(stops) :
            /\ stops[i].startDate # 0
            /\ stops[i - 1].endTime # 0
            /\ stops[i - 1].endTime
                 + (IF stops[i].walkTime # 0 THEN stops[i].walkTime
                    ELSE DefaultWalkTime) > stops[i].startDate}

ReportedUnreachable ==
    optimizedRoute.stops[CHOOSE i \in Unreachable : \A j \in Unreachable : i <= j]

\* C22: when the timing check fails on an event stop that is not
\* explicit-request, the repaired itinerary no longer contains that stop
C22_UnreachableStopRemoved ==
    ( /\ Validated
      /\ IssueRaised("timing")
      /\ ~ReportedUnreachable.isExplicitRequest )
    => ReportedUnreachable.id \notin Ids(qualityResult.itinerary.stops)


\* C23: an itinerary with a title, a description, a total distance and a
\* non-empty stop list passes the completeness check whatever the values of
\* the fields are, a single-stop route of total distance 0 included
C23_CompletenessByPresence ==
    ( /\ Validated
      /\ plan.title
      /\ plan.description
      /\ optimizedRoute.stops # <<>> )
    => ~IssueRaised("completeness")


\* C24: when resolution yields no stop the request ends in a failure: the
\* caller never receives a success result whose itinerary has zero stops
C24_EmptyResolutionFails ==
    pc = "done" /\ allStops = <<>> =>
        ~(response.success /\ response.itinerary.stops = <<>>)


(***************************************************************************)
(* IntentNormalizer and PlanAdapter: IntentAnalyzerAgent.process followed  *)
(* by MasterPlannerAgent.process, over the outcomes of BaseAgent.callGPT.  *)
(* A prompt is what the code's substring and pattern tests read off it;    *)
(* a JSON object is a record that has the fields the object has.           *)
(***************************************************************************)
\* durationWord: 'day' without 'days' / 'days' / 'week'; connective: then,
\* after; place: a meal pattern or a visit pattern with a place name;
\* eventWord: an event seed; local: local, nearby, date; running: run
PromptPool ==
    [durationWord : {"none", "day", "days", "week"}, connective : BOOLEAN,
     place : {"none", "meal", "visit"}, eventWord : BOOLEAN,
     local : BOOLEAN, running : BOOLEAN]

\* the object with the fields of r that are in has
Restrict(r, has) == [f \in has \cup {"kind"} |-> r[f]]

\* a location_context without its lists, and one that names a location
PartialLocationContext ==
    [lists |-> FALSE, locations |-> FALSE, meal |-> FALSE, visit |-> FALSE]

EmptyLocationContext ==
    [lists |-> TRUE, locations |-> FALSE, meal |-> FALSE, visit |-> FALSE]

\* JSON.parse(content): null, a number or string, an array, or an object
\* with some of the fields the system prompt asks for
ParsedAnalyses ==
    {[kind |-> "null"], [kind |-> "primitive"], [kind |-> "array"]}
    \cup { Restrict([kind |-> "object", duration_type |-> d, sequence_matters |-> sm,
                     location_context |-> lc, explicit_venues |-> <<"moma">>,
                     venue_categories |-> <<"food">>, event_keywords |-> <<jazz>>, event_interest |-> TRUE],
                    has) :
             d \in DurationTypes \cup {"half_day"}, sm \in BOOLEAN,
             lc \in {PartialLocationContext,
                     [EmptyLocationContext EXCEPT !.locations = TRUE]},
             has \in SUBSET {"duration_type", "sequence_matters", "location_context",
                             "explicit_venues", "venue_categories", "event_keywords",
                             "event_interest"} }

\* BaseAgent.callGPT in JSON mode: a failed call, empty content and content
\* that cannot be parsed give {}, anything else the parsed value
CompletionFailures == {"failed", "empty", "unparsable"}

callGPT(outcome, parsed) ==
    IF outcome \in CompletionFailures THEN [kind |-> "object"] ELSE parsed

\* promptLower.includes('day') ... of enhanceAnalysis and createFallbackAnalysis
durationOfPrompt(prompt) ==
    CASE prompt.durationWord = "day" -> "full_day"
      [] prompt.durationWord \in {"days", "week"} -> "multi_day"
      [] OTHER -> "few_hours"

\* dedupeOrdered(seeds.map(buildFallbackTermsFromSeed))
fallbackTerms(prompt) == IF prompt.eventWord THEN <<music>> ELSE <<>>

\* IntentAnalyzerAgent.enhanceAnalysis: the enhanced analysis, or the
\* TypeError of a property access on null, of an assignment to a primitive
\* or of a call on a list that the location_context does not have
enhanceAnalysis(analysis, prompt) ==
    LET duration_type == Field(analysis, "duration_type", durationOfPrompt(prompt))
        lc == Field(analysis, "location_context", EmptyLocationContext)
        merged == pushNew(fallbackTerms(prompt), Field(analysis, "event_keywords", <<>>))
    IN  IF \/ analysis.kind \in {"null", "primitive"}
           \/ (prompt.place # "none" /\ ~lc.lists)
        THEN [threw |-> TRUE, analysis |-> analysis]
        ELSE [threw |-> FALSE, analysis |->
             [duration_type |-> duration_type,
              sequence_matters |-> Field(analysis, "sequence_matters", prompt.connective),
              location_context |-> [lc EXCEPT !.meal = @ \/ prompt.place = "meal",
                                              !.visit = @ \/ prompt.place = "visit"],
              day_count |-> IF duration_type = "multi_day" THEN 2 ELSE 0,
              explicit_venues |-> Field(analysis, "explicit_venues", <<>>),
              venue_categories |-> Field(analysis, "venue_categories", <<>>),
              event_interest |-> Field(analysis, "event_interest", FALSE) \/ merged # <<>>,
              event_keywords |-> merged]]

\* IntentAnalyzerAgent.createFallbackAnalysis
createFallbackAnalysis(prompt) ==
    [duration_type |-> durationOfPrompt(prompt),
     sequence_matters |-> prompt.connective,
     location_context |-> EmptyLocationContext,
     day_count |-> CASE prompt.durationWord = "week" -> 7
                     [] prompt.durationWord = "days" -> 3
                     [] OTHER -> 0,
     explicit_venues |-> <<>>,
     venue_categories |-> IF prompt.place = "meal" THEN <<"food">> ELSE <<>>,
     event_interest |-> prompt.eventWord,
     event_keywords |-> fallbackTerms(prompt)]

(***************************************************************************)
(* MasterPlannerAgent                                                      *)
(***************************************************************************)
SearchPoint(stopNumber, type, north) ==
    [stopNumber |-> stopNumber, type |-> type, location |-> Loc(north),
     query |-> <<"q">>]

\* JSON.parse(content) of the planner's completion: objects with and
\* without searchPoints and searchStrategy
ParsedPlans ==
    { [kind |-> "object"],
      [kind |-> "object", searchStrategy |-> [searchRadius |-> 1000]],
      [kind |-> "object", searchPoints |-> <<>>, numberOfStops |-> 0],
      [kind |-> "object", searchStrategy |-> [searchRadius |-> 1000],
       searchPoints |-> <<SearchPoint(1, "event", 40)>>, numberOfStops |-> 1],
      [kind |-> "object", searchStrategy |-> [searchRadius |-> 1000],
       searchPoints |-> <<SearchPoint(1, "venue", 40), SearchPoint(2, "event", -30),
                          SearchPoint(3, "venue", 20), SearchPoint(4, "venue", 50)>>,
       numberOfStops |-> 4] }

\* the draft, or the TypeError of a call on searchPoints that are undefined
Raised == [threw |-> TRUE]

Returned(draft) == [threw |-> FALSE, plan |-> draft]

HasPoints(draft) == "searchPoints" \in DOMAIN draft

CeilDiv(a, b) == (a + b - 1) \div b

\* MasterPlannerAgent.adaptPlanToDuration
adaptPlanToDuration(draft, intent) ==
    LET eventOnly == /\ intent.event_interest
                     /\ intent.explicit_venues = <<>>
                     /\ intent.venue_categories = <<>>
        eventsOnly == IF eventOnly
                      THEN SelectSeq(draft.searchPoints, LAMBDA q : q.type = "event")
                      ELSE draft.searchPoints
        sliced == SubSeq(eventsOnly, 1, Min2(3, Len(eventsOnly)))
        short == IF ~intent.event_interest /\ intent.event_keywords = <<>>
                 THEN SelectSeq(sliced, LAMBDA q : q.type # "event")
                 ELSE sliced
        stopsPerDay == CeilDiv(Len(eventsOnly), intent.day_count)
        count == IF eventOnly THEN Len(eventsOnly)
                 ELSE Field(draft, "numberOfStops", 0)
    IN  IF ~HasPoints(draft)
        THEN IF eventOnly \/ intent.duration_type \in {"few_hours", "multi_day"}
             THEN Raised
             ELSE Returned(draft)
        ELSE CASE intent.duration_type = "few_hours" ->
                    Returned([draft EXCEPT !.searchPoints = short,
                                          !.numberOfStops = Min2(3, count)])
               [] intent.duration_type = "multi_day" ->
                    Returned([f \in DOMAIN draft \cup {"days"} |->
                        CASE f = "days" ->
                               [i \in 1..intent.day_count |->
                                   SubSeq(eventsOnly,
                                          Min2((i - 1) * stopsPerDay, Len(eventsOnly)) + 1,
                                          Min2(i * stopsPerDay, Len(eventsOnly)))]
                          [] f = "searchPoints" -> eventsOnly
                          [] f = "numberOfStops" -> count
                          [] OTHER -> draft[f]])
               [] OTHER ->
                    Returned([draft EXCEPT !.searchPoints = eventsOnly,
                                          !.numberOfStops = count])

\* draft.searchStrategy.searchRadius = radius, if the draft has a strategy
withRadius(draft, radius) ==
    IF "searchStrategy" \in DOMAIN draft
    THEN [draft EXCEPT !.searchStrategy.searchRadius = radius]
    ELSE draft

\* MasterPlannerAgent.ensureNearbyLocations; jitter[i] is the random
\* variation of point i
ensureNearbyLocations(draft, intent, prompt, jitter) ==
    LET hasSpecificLocations ==
            \/ intent.explicit_venues # <<>>
            \/ intent.location_context.locations
            \/ intent.location_context.visit
    IN  IF prompt.local /\ ~hasSpecificLocations
        THEN IF ~HasPoints(draft) THEN Raised
             ELSE Returned(withRadius(
                    [draft EXCEPT !.searchPoints =
                        [i \in 1..Len(@) |-> [@[i] EXCEPT !.location = Loc(jitter[i])]]],
                    1500))
        ELSE IF ~hasSpecificLocations /\ HasPoints(draft) /\ draft.searchPoints # <<>>
        THEN Returned([draft EXCEPT !.searchPoints[1].location = Loc(0)])
        ELSE Returned(draft)

\* the triangle of a running route around the base location
spacedLocation(index) ==
    CASE index = 1 -> [lat |-> 20, lng |-> 13]
      [] index = 2 -> [lat |-> -11, lng |-> 20]
      [] OTHER -> Loc(0)

\* MasterPlannerAgent.ensureProperSpacing
ensureProperSpacing(draft, prompt) ==
    IF prompt.running /\ HasPoints(draft)
    THEN withRadius(
           [draft EXCEPT !.searchPoints =
               [i \in 1..Len(@) |-> [@[i] EXCEPT !.location = spacedLocation(i - 1),
                                                 !.query = <<"p", "a", "r", "k">>]]],
           2000)
    ELSE draft

\* MasterPlannerAgent.process after callGPT
createPlan(draft, intent, prompt, jitter) ==
    LET adaptedPlan == adaptPlanToDuration(draft, intent)
        localizedPlan == ensureNearbyLocations(adaptedPlan.plan, intent, prompt, jitter)
    IN  IF adaptedPlan.threw THEN Raised
        ELSE IF localizedPlan.threw THEN Raised
        ELSE Returned(ensureProperSpacing(localizedPlan.plan, prompt))


\* (Math.random() - 0.5) * 0.009 for each point: up to about 500 m either
\* way; all points north, all south, alternating
JitterPool ==
    { [i \in 1..4 |-> 10], [i \in 1..4 |-> -10],
      [i \in 1..4 |-> IF i % 2 = 0 THEN 10 ELSE -10] }

\* processItinerary, steps 1 and 2: the prompt of a request reaches the
\* intent agent
InitIntake ==
    /\ pc = "intake"
    /\ context = [location |-> Loc(0), durationType |-> "few_hours",
                  constraints |-> [sequence_matters |-> FALSE],
                  selectedVenues |-> <<>>]
    /\ plan = [searchStrategy |-> [type |-> "balanced"], isLocalSearch |-> FALSE,
               title |-> TRUE, description |-> TRUE, searchPoints |-> <<>>]
    /\ task = <<>>
    /\ allStops = <<>>
    /\ optimizedRoute = NoRoute
    /\ qualityResult = NoQuality
    /\ response = NoResponse
    /\ usedVenueIds = {}
    /\ existingEventIds = {}
    /\ flags = NoFlags
    /\ \E prompt \in PromptPool :
          provider = [agent |-> "intent", prompt |-> prompt, completion |-> "none",
                      raised |-> FALSE]

\* IntentAnalyzerAgent.process
IntentProcess ==
    /\ provider.agent = "intent"
    /\ \E outcome \in CompletionFailures \cup {"parsed"}, parsed \in ParsedAnalyses :
          LET analysis == callGPT(outcome, parsed)
              enhanced == enhanceAnalysis(analysis, provider.prompt)
          IN  provider' = [agent |-> "planner", prompt |-> provider.prompt,
                           completion |-> IF outcome = "parsed" THEN parsed.kind
                                          ELSE outcome,
                           fields |-> DOMAIN analysis \ {"kind"},
                           fellBack |-> enhanced.threw,
                           raised |-> FALSE,
                           intent |-> IF enhanced.threw
                                      THEN createFallbackAnalysis(provider.prompt)
                                      ELSE enhanced.analysis]
    /\ UNCHANGED pipelineVars

\* MasterPlannerAgent.process
PlannerProcess ==
    /\ provider.agent = "planner"
    /\ \E draft \in {callGPT(outcome, parsed) :
                         outcome \in CompletionFailures \cup {"parsed"},
                         parsed \in ParsedPlans},
          jitter \in JitterPool :
          LET created == createPlan(draft, provider.intent, provider.prompt, jitter)
          IN  provider' = [agent |-> "coordinator", prompt |-> provider.prompt,
                           intent |-> provider.intent,
                           completion |-> IF HasPoints(draft) THEN "points"
                                          ELSE "no points",
                           raised |-> created.threw,
                           plan |-> IF created.threw THEN draft ELSE created.plan]
    /\ UNCHANGED pipelineVars

NextIntake == IntentProcess \/ PlannerProcess

SpecIntake == InitIntake /\ [][NextIntake]_vars


(***************************************************************************)
(* Claims checked against SpecIntake                                       *)
(***************************************************************************)
Planned == provider.agent = "coordinator"

Analyzed == provider.agent \in {"planner", "coordinator"}

\* C25: when the completion gives the planner no search points, the planner
\* raises no exception and returns a plan with an empty point list
C25_NoPointsGivesEmptyPlan ==
    Planned /\ provider.completion = "no points" =>
        /\ ~provider.raised
        /\ HasPoints(provider.plan)
        /\ provider.plan.searchPoints = <<>>

\* C26: whatever the completion call gives, the intent returned has one of
\* the three duration classes, a sequence-matters flag, keyword and venue
\* lists and a location context with its location lists
C26_IntentWellFormed ==
    Analyzed =>
        /\ provider.intent.duration_type \in DurationTypes
        /\ provider.intent.sequence_matters \in BOOLEAN
        /\ provider.intent.event_keywords \in Seq(Range(provider.intent.event_keywords))
        /\ provider.intent.explicit_venues \in Seq(Range(provider.intent.explicit_venues))
        /\ provider.intent.location_context.lists


(***************************************************************************)
(* Route assembly and quality validation of stops among which there is an  *)
(* event that TicketmasterClient.searchEvents returned without coordinate  *)
(* (location: undefined)                                                   *)
(***************************************************************************)
\* the resolved stops contain the event e1, and e1 has no location
InitUnlocated ==
    /\ pc = "route"
    /\ \E d \in DurationTypes, sm \in BOOLEAN :
          context = [location |-> Loc(0), durationType |-> d,
                     constraints |-> [sequence_matters |-> sm],
                     selectedVenues |-> <<>>]
    /\ \E t \in StrategyTypes, l \in BOOLEAN :
          plan = [searchStrategy |-> [type |-> t], isLocalSearch |-> l,
                  title |-> TRUE, description |-> TRUE, searchPoints |-> <<>>]
    /\ allStops \in {stops \in StopLists : "e1" \in Ids(stops)}
    /\ optimizedRoute = NoRoute
    /\ qualityResult = NoQuality
    /\ response = NoResponse
    /\ task = <<>>
    /\ usedVenueIds = {}
    /\ existingEventIds = {}
    /\ flags = NoFlags
    /\ provider = [agent |-> "route", unlocated |-> {"e1"}, raised |-> FALSE]

\* RouteOptimizerAgent.process reaches a calculateDistance with the
\* undefined location as an argument, which reads .lat of undefined: in
\* the distance log of a local search, which visits every stop, or in
\* calculateRoute, which measures every stop but the first from the one
\* before it
routeRaises(payload, unlocated) ==
    /\ Ids(payload.allStops) \cap unlocated # {}
    /\ \/ payload.isLocalSearch
       \/ Len(payload.allStops) >= 2

\* processItinerary, step 4, with the TypeError passed on by its catch
RouteUnlocated ==
    /\ pc = "route"
    /\ provider.agent = "route"
    /\ IF routeRaises(RoutePayload, provider.unlocated)
       THEN /\ pc' = "failed"
            /\ provider' = [provider EXCEPT !.raised = TRUE]
            /\ UNCHANGED optimizedRoute
       ELSE /\ pc' = "quality"
            /\ optimizedRoute' = RouteProcess(RoutePayload, context)
            /\ UNCHANGED provider
    /\ UNCHANGED <<context, plan, allStops, qualityResult, response, task,
                   usedVenueIds, existingEventIds, flags>>

NextUnlocated == RouteUnlocated \/ CallQuality \/ GenerateItinerary

SpecUnlocated == InitUnlocated /\ [][NextUnlocated]_vars

\* C27: an event stop without coordinate does not make the pipeline fail,
\* whether the order is preserved, optimized or the search is local
C27_UnlocatedEventTolerated ==
    provider.agent = "route" => ~provider.raised /\ pc # "failed"


(***************************************************************************)
(* The full pipeline after the searches: route assembly and quality        *)
(* validation of the stops that executeSearches builds                     *)
(***************************************************************************)
\* what executeSearches pushes for one search point: the selected venue or
\* a placeholder; the selected event or nothing
StopsFor(point) ==
    IF point.type = "venue"
    THEN {<<VenueStop(v, point)>> : v \in VenuePool} \cup {<<PlaceholderStop(point)>>}
    ELSE {<<EventStop(e, point)>> : e \in EventPool} \cup {<<>>}

RECURSIVE ResolvedLists(_)
ResolvedLists(points) ==
    IF points = <<>> THEN {<<>>}
    ELSE {first \o rest : first \in StopsFor(Head(points)),
                          rest \in ResolvedLists(Tail(points))}

\* searchResults.allStops for the plans of up to MaxStops search points
SearchResults ==
    UNION { {sortAndRenumber(stops) : stops \in ResolvedLists(points)} :
            points \in {q \in UNION {[1..n -> PointPool] : n \in 1..MaxStops} :
                          Injective(q)} }

InitPipeline ==
    /\ pc = "route"
    /\ \E d \in DurationTypes :
          context = [location |-> Loc(0), durationType |-> d,
                     constraints |-> [sequence_matters |-> FALSE],
                     selectedVenues |-> <<>>]
    /\ \E t \in {"minimal", "balanced"}, l \in BOOLEAN :
          plan = [searchStrategy |-> [type |-> t], isLocalSearch |-> l,
                  title |-> TRUE, description |-> TRUE, searchPoints |-> <<>>]
    /\ allStops \in SearchResults
    /\ optimizedRoute = NoRoute
    /\ qualityResult = NoQuality
    /\ response = NoResponse
    /\ task = <<>>
    /\ usedVenueIds = {}
    /\ existingEventIds = {}
    /\ flags = NoFlags
    /\ provider = NoProvider

NextPipeline == CallRoute \/ CallQuality \/ GenerateItinerary

SpecPipeline == InitPipeline /\ [][NextPipeline]_vars

\* C28: in the full pipeline the repair removes no stop, whatever checks
\* fail: the repaired itinerary has the stop list of the assembled route
C28_PipelineRepairKeepsStops ==
    Validated =>
        IdSeq(qualityResult.itinerary.stops) = IdSeq(optimizedRoute.stops)

\* the distance check and the localConstraints check failed on a route of
\* several stops, one of them a venue that is not explicit-request
C28_Witness ==
    /\ pc = "respond"
    /\ IssueRaised("distance")
    /\ IssueRaised("localConstraints")
    /\ \E i \in 1..Len(optimizedRoute.stops) :
          /\ ~optimizedRoute.stops[i].isExplicitRequest
          /\ ~optimizedRoute.stops[i].isPlaceholder
          /\ ~optimizedRoute.stops[i].isEvent


(***************************************************************************)
(* A further claim checked against SpecSeq                                 *)
(***************************************************************************)
\* C30: the id, the name and the coordinate of every resolved venue stop
\* are those of one provider candidate, and that candidate is the one
\* recorded as selected, in a local search with a closer candidate too
C30_VenueStopConsistent ==
    \A i \in 1..Len(allStops) :
        LET stop == allStops[i]
        IN  (~stop.isPlaceholder /\ ~stop.isEvent) =>
                /\ \E v \in VenuePool :
                      /\ v.id = stop.id
                      /\ v.name = stop.name
                      /\ v.location = stop.location
                /\ stop.id \in usedVenueIds
                /\ stop.id \in Ids(context.selectedVenues)


(***************************************************************************)
(* Two processItinerary requests at once on the one AgentCoordinator of    *)
(* the server: both sessions call the one VenueSpecialistAgent, whose      *)
(* context field callAgent sets before each call                           *)
(***************************************************************************)
Sessions == {"A", "B"}

\* the context of a session and the locals of its call of the venue agent;
\* returned, readFrom and wroteTo keep what the call did
NoSession == [pc |-> "idle", calls |-> 0, selectedVenues |-> <<>>, previousIds |-> {},
              venues |-> {}, returned |-> {}, readFrom |-> "none", wroteTo |-> "none"]

InitSessions ==
    /\ pc = "search"
    /\ context = [location |-> Loc(0), durationType |-> "full_day",
                  constraints |-> [sequence_matters |-> FALSE],
                  selectedVenues |-> <<>>]
    /\ plan = [searchStrategy |-> [type |-> "balanced"], isLocalSearch |-> FALSE,
               title |-> TRUE, description |-> TRUE, searchPoints |-> <<>>]
    /\ task = <<>>
    /\ allStops = <<>>
    /\ optimizedRoute = NoRoute
    /\ qualityResult = NoQuality
    /\ response = NoResponse
    /\ usedVenueIds = {}
    /\ existingEventIds = {}
    /\ flags = NoFlags
    /\ provider = [agent |-> "sessions", context |-> "none",
                   session |-> [s \in Sessions |-> NoSession]]

sessionVars == <<pc, context, plan, allStops, optimizedRoute, qualityResult, response,
                 task, existingEventIds, flags>>

\* callAgent('venue', ...) of session s: agent.setContext(sessions.get(s)),
\* then process up to await googleClient.searchVenues
SessionCallsVenue ==
  \E s \in Sessions :
    /\ provider.agent = "sessions"
    /\ provider.session[s].pc = "idle"
    /\ provider.session[s].calls < MaxCalls
    /\ provider' = [provider EXCEPT !.context = s,
                                    !.session[s].pc = "searchVenues",
                                    !.session[s].calls = @ + 1]
    /\ UNCHANGED <<sessionVars, usedVenueIds>>

\* searchVenues returns to the call of session s, which reads
\* this.context.selectedVenues and filters
SessionSearchReturns ==
  \E s \in Sessions :
    /\ provider.agent = "sessions"
    /\ provider.session[s].pc = "searchVenues"
    /\ \E found \in SUBSET VenuePool :
          LET previouslySelectedVenues == provider.session[provider.context].selectedVenues
              filtered == FilterUsed(found, previouslySelectedVenues, usedVenueIds)
          IN  provider' =
                IF found = {}
                THEN [provider EXCEPT !.session[s].pc = "idle"]
                ELSE [provider EXCEPT
                        !.session[s].pc = IF filtered = {} THEN "expandedSearch"
                                          ELSE "scoreVenues",
                        !.session[s].previousIds = Ids(previouslySelectedVenues),
                        !.session[s].venues = filtered,
                        !.session[s].readFrom = provider.context]
    /\ UNCHANGED <<sessionVars, usedVenueIds>>

\* the search with the doubled radius returns to the call of session s
SessionExpandedReturns ==
  \E s \in Sessions :
    /\ provider.agent = "sessions"
    /\ provider.session[s].pc = "expandedSearch"
    /\ \E expanded \in SUBSET VenuePool :
          provider' = [provider EXCEPT
                         !.session[s].pc = "scoreVenues",
                         !.session[s].venues =
                             FilterExpanded(expanded, provider.session[s].previousIds,
                                            usedVenueIds)]
    /\ UNCHANGED <<sessionVars, usedVenueIds>>

\* scoreVenues and enrichVenues return to the call of session s: the first
\* venue is recorded in usedVenueIds and in this.context.selectedVenues
SessionScoreReturns ==
  \E s \in Sessions :
    /\ provider.agent = "sessions"
    /\ provider.session[s].pc = "scoreVenues"
    /\ IF provider.session[s].venues = {}
       THEN /\ provider' = [provider EXCEPT !.session[s].pc = "idle"]
            /\ UNCHANGED usedVenueIds
       ELSE \E first \in provider.session[s].venues :
              /\ usedVenueIds' = usedVenueIds \cup {first.id}
              /\ provider' = [provider EXCEPT
                    !.session[s].pc = "idle",
                    !.session[s].returned = @ \cup {first.id},
                    !.session[s].wroteTo = provider.context,
                    !.session[provider.context].selectedVenues = Append(@, first)]
    /\ UNCHANGED sessionVars

NextSessions ==
    \/ SessionCallsVenue
    \/ SessionSearchReturns
    \/ SessionExpandedReturns
    \/ SessionScoreReturns

SpecSessions == InitSessions /\ [][NextSessions]_vars

\* C29: with two requests at once the venue agent reads and writes the
\* context of the session that called it: the selected venues of a session
\* are those returned to that session, and a call filters against the
\* selected venues of its own session
C29_SessionsIsolated ==
    provider.agent = "sessions" =>
        \A s \in Sessions :
            /\ Ids(provider.session[s].selectedVenues) \subseteq provider.session[s].returned
            /\ provider.session[s].readFrom \in {"none", s}
            /\ provider.session[s].wroteTo \in {"none", s}

====
